---- MODULE Spec2Model ----
(***************************************************************************)
(* A model of TwitterClient (src/twitter_client.py): the credential store, *)
(* the authentication gate, the retrying request primitive _make_request,  *)
(* the response classification _handle_response and the public request     *)
(* operations built on them.                                                *)
(*                                                                         *)
(* Text (error messages, error codes, response bodies) is a sequence of    *)
(* fragments: an f-string is the concatenation of its parts and Python's    *)
(* `needle in text` is containment of a contiguous subsequence.             *)
(***************************************************************************)
EXTENDS Integers, Sequences, FiniteSets, TLC

VARIABLES cookie_data, config, session, pc, op, attempt, calls, sleeps,
          history, last_response, result, closes, scope, via,
          args, request, answer, supplied, loaded

vars == <<cookie_data, config, session, pc, op, attempt, calls, sleeps,
          history, last_response, result, closes, scope, via,
          args, request, answer, supplied, loaded>>

(***************************************************************************)
(* Bounds of the model.                                                     *)
(***************************************************************************)
\* largest configured max_retries
MaxRetriesBound == 3
\* largest configured backoff_base
MaxBackoffBase == 2
\* most essential cookies that are absent or empty in an enumerated bundle
MaxDefects == 1
\* the runs of close() on one client are counted up to this number
MaxCloses == 2

(***************************************************************************)
(* Text.                                                                    *)
(***************************************************************************)
RECURSIVE Sp(_)
\* the words of a literal, joined by single spaces
Sp(ws) ==
  IF Len(ws) = 0 THEN <<>>
  ELSE IF Len(ws) = 1 THEN <<ws[1]>>
  ELSE <<ws[1], " ">> \o Sp(Tail(ws))

\* Python's `needle in hay` on strings
Contains(hay, needle) ==
  \E i \in 0..(Len(hay) - Len(needle)) :
    \A j \in 1..Len(needle) : hay[i + j] = needle[j]

StartsWith(hay, prefix) ==
  /\ Len(prefix) <= Len(hay)
  /\ \A j \in 1..Len(prefix) : hay[j] = prefix[j]

\* str(status_code) inside an f-string
StatusText(status) == <<ToString(status)>>

\* the text "HTTP <status>:"
HttpPrefix(status) == <<"HTTP", " ">> \o StatusText(status) \o <<":">>

(***************************************************************************)
(* Credential bundles (load_cookies, get_essential_cookies,                 *)
(* get_cookie_header, is_authenticated, _check_authentication).             *)
(***************************************************************************)
required_cookies == <<"auth_token", "ct0", "twid", "guest_id", "att">>

RequiredSet == {required_cookies[i] : i \in 1..Len(required_cookies)}

\* value of an essentials entry: "absent" is a key that is not in the mapping,
\* "" the empty string, "v" a non-empty string
CookieValues == {"absent", "", "v"}

\* the essentials mappings enumerated: at most MaxDefects keys absent or empty,
\* and the empty mapping
EssentialsMaps ==
  {f \in [RequiredSet -> CookieValues] :
     \/ Cardinality({k \in RequiredSet : f[k] # "v"}) <= MaxDefects
     \/ \A k \in RequiredSet : f[k] = "absent"}

EmptyEssentials == [k \in RequiredSet |-> "absent"]

\* the text "name=value"
PairText(name, value) == <<name, "=", value>>

RECURSIVE JoinPairs(_, _)
\* the pairs of the cookies `names`, joined by "; ", as the bridge's cookie
\* tooling writes the cookieHeader of a bundle
JoinPairs(names, essentials) ==
  IF Len(names) = 0 THEN <<>>
  ELSE IF Len(names) = 1 THEN PairText(names[1], essentials[names[1]])
  ELSE PairText(names[1], essentials[names[1]]) \o <<"; ">>
         \o JoinPairs(Tail(names), essentials)

\* the essentials mapping with every cookie set
FullEssentials == [k \in RequiredSet |-> "v"]

\* a cookieHeader made of all five pairs
FullHeader == JoinPairs(required_cookies, FullEssentials)

\* a cookieHeader made of the first two pairs only
PartialHeader == JoinPairs(SubSeq(required_cookies, 1, 2), FullEssentials)

\* the cookieHeader strings enumerated: empty and non-empty
CookieHeaders == {<<>>, FullHeader}

\* self.cookie_data = None
NoBundle ==
  [isNone |-> TRUE, hasCookies |-> FALSE, hasHeader |-> FALSE,
   cookieHeader |-> <<>>, hasEssentials |-> FALSE, essentials |-> EmptyEssentials]

\* the dicts that load_cookies is given: each of the keys 'cookies',
\* 'cookieHeader', 'essentials' present or not ('cookies', which the client
\* never reads, is left out only of the empty dict)
Bundles ==
  {b \in [isNone : {FALSE}, hasCookies : BOOLEAN, hasHeader : BOOLEAN,
          cookieHeader : CookieHeaders, hasEssentials : BOOLEAN,
          essentials : EssentialsMaps] :
     /\ (~b.hasHeader => b.cookieHeader = <<>>)
     /\ (~b.hasEssentials => b.essentials = EmptyEssentials)
     /\ (~b.hasCookies => ~b.hasHeader /\ ~b.hasEssentials)}

\* Python truthiness of self.cookie_data: None and the empty dict are falsy
Truthy(cd) == ~cd.isNone /\ (cd.hasCookies \/ cd.hasHeader \/ cd.hasEssentials)

\* truthiness of an essentials mapping: a dict is truthy iff it has a key
EssentialsTruthy(e) == \E k \in RequiredSet : e[k] # "absent"

get_essential_cookies(cd) ==
  IF ~Truthy(cd) THEN EmptyEssentials
  ELSE IF cd.hasEssentials THEN cd.essentials ELSE EmptyEssentials

\* a header generated from the essentials of the bundle
get_cookie_header_Derived(cd) ==
  IF ~Truthy(cd) THEN <<>>
  ELSE IF cd.hasEssentials THEN JoinPairs(required_cookies, cd.essentials) ELSE <<>>

\* return self.cookie_data.get("cookieHeader", "")
get_cookie_header(cd) ==
  IF ~Truthy(cd) THEN <<>>
  ELSE IF cd.hasHeader THEN cd.cookieHeader ELSE <<>>

\* is_authenticated that tests only `cookie in essentials`, not the value
is_authenticated_KeyOnly(cd) ==
  IF ~Truthy(cd) THEN FALSE
  ELSE LET essentials == get_essential_cookies(cd)
       IN \A i \in 1..Len(required_cookies) :
            essentials[required_cookies[i]] # "absent"

\* is_authenticated with any() in place of all()
is_authenticated_Any(cd) ==
  IF ~Truthy(cd) THEN FALSE
  ELSE LET essentials == get_essential_cookies(cd)
       IN \E i \in 1..Len(required_cookies) :
            /\ essentials[required_cookies[i]] # "absent"
            /\ essentials[required_cookies[i]] # ""

is_authenticated(cd) ==
  IF ~Truthy(cd) THEN FALSE
  ELSE LET essentials == get_essential_cookies(cd)
       IN \A i \in 1..Len(required_cookies) :
            /\ essentials[required_cookies[i]] # "absent"
            /\ essentials[required_cookies[i]] # ""

(***************************************************************************)
(* Errors: the code raises one exception class, TwitterClientError, and    *)
(* the kinds are told apart by the message.                                 *)
(***************************************************************************)
NoText == <<>>

TwitterClientError(msg) == [kind |-> "raise", type |-> "TwitterClientError", msg |-> msg]

AttributeError == [kind |-> "raise", type |-> "AttributeError", msg |-> NoText]

MsgCookiesMissing ==
  Sp(<<"Authentication", "cookies", "missing:", "expected", "'cookieHeader'",
       "and", "'essentials'">>)

MsgCookiesInvalid ==
  Sp(<<"Authentication", "cookies", "invalid", "or", "incomplete;", "see",
       "is_authenticated()", "docstring", "for", "required", "set">>)

MsgTimeout == Sp(<<"Request", "timeout", "-", "bridge", "may", "be", "unavailable">>)

MsgConnection == Sp(<<"Connection", "error", "-", "unable", "to", "reach", "bridge">>)

MsgMaxRetries == Sp(<<"Max", "retries", "exceeded">>)

\* the error _check_authentication raises, or "ok" when it returns
AuthOk == [kind |-> "ok", type |-> "", msg |-> NoText]

\* _check_authentication without the test of the cookieHeader value
_check_authentication_NoHeaderTest(cd) ==
  IF ~Truthy(cd) THEN TwitterClientError(MsgCookiesMissing)
  ELSE IF ~cd.hasHeader \/ ~cd.hasEssentials THEN TwitterClientError(MsgCookiesMissing)
  ELSE IF ~EssentialsTruthy(cd.essentials) THEN TwitterClientError(MsgCookiesMissing)
  ELSE IF ~is_authenticated(cd) THEN TwitterClientError(MsgCookiesInvalid)
  ELSE AuthOk

_check_authentication(cd) ==
  IF ~Truthy(cd) THEN TwitterClientError(MsgCookiesMissing)
  ELSE IF ~cd.hasHeader \/ ~cd.hasEssentials THEN TwitterClientError(MsgCookiesMissing)
  ELSE IF cd.cookieHeader = <<>> \/ ~EssentialsTruthy(cd.essentials)
       THEN TwitterClientError(MsgCookiesMissing)
  ELSE IF ~is_authenticated(cd) THEN TwitterClientError(MsgCookiesInvalid)
  ELSE AuthOk

(***************************************************************************)
(* What the bridge can answer to one network call.                          *)
(***************************************************************************)
\* HTTP statuses enumerated: success, three client errors, a non-transient and
\* the three transient server errors
Statuses == {200, 401, 404, 429, 500, 502, 503, 504}

\* error.code values of the envelope
ErrorCodes ==
  {<<"NOT_FOUND">>, <<"RATE_LIMITED">>, <<"AUTHENTICATION", "_FAILED">>,
   <<"SERVER_ERROR">>, <<"TWEET_", "NOT_FOUND">>}

\* error.message values of the envelope; the second quotes an upstream status
ErrorMessages ==
  {<<"boom">>, Sp(<<"upstream", "said">>) \o <<" ">> \o HttpPrefix(503) \o <<" ", "busy">>}

\* the error objects enumerated: each code with the plain message, and two
\* codes with the message that quotes a status
ErrorObjects ==
  {e \in [code : ErrorCodes, message : ErrorMessages] :
     e.message = <<"boom">> \/ e.code \in {<<"SERVER_ERROR">>, <<"NOT_FOUND">>}}

\* raw bodies that are not valid JSON
RawTexts ==
  {<<"<html>">>, <<"<html>", " ">> \o HttpPrefix(502) \o <<" ">> \o Sp(<<"Bad", "Gateway">>)}

\* reason phrases of the status line
Reasons == {Sp(<<"Service", "Unavailable">>)}

\* the 'data' lists of a success envelope
DataLists == {<<>>, <<"t1", "t2">>}

NoFields ==
  [json |-> FALSE, success |-> "absent", hasCode |-> FALSE, code |-> NoText,
   hasMessage |-> FALSE, message |-> NoText, text |-> NoText, reason |-> NoText,
   hasData |-> FALSE, dataKind |-> "none", data |-> <<>>]

\* a response whose body is not valid JSON
RawResponses ==
  {[NoFields EXCEPT !.text = t, !.reason = r] : t \in RawTexts, r \in Reasons}

\* a JSON envelope with success false or without a success key
ErrorEnvelopes ==
  {[NoFields EXCEPT !.json = TRUE, !.success = s, !.hasCode = TRUE, !.code = e.code,
                    !.hasMessage = TRUE, !.message = e.message] :
     s \in {"false", "absent"}, e \in ErrorObjects}
  \cup {[NoFields EXCEPT !.json = TRUE, !.success = s] : s \in {"false", "absent"}}

\* the 'data' mapping of a success envelope that carries one tweet: the raw
\* tweet, or the empty mapping
DataMappings == {<<"t1">>, <<"">>}

\* a JSON envelope with success true: 'data' is a list of raw tweets, one raw
\* tweet, or absent
SuccessEnvelopes ==
  {[NoFields EXCEPT !.json = TRUE, !.success = "true", !.hasData = TRUE,
                    !.dataKind = "list", !.data = d] : d \in DataLists}
  \cup {[NoFields EXCEPT !.json = TRUE, !.success = "true", !.hasData = TRUE,
                         !.dataKind = "mapping", !.data = d] : d \in DataMappings}
  \cup {[NoFields EXCEPT !.json = TRUE, !.success = "true"]}

Bodies == RawResponses \cup ErrorEnvelopes \cup SuccessEnvelopes

Responses == {[status |-> st, body |-> b] : st \in Statuses, b \in Bodies}

(***************************************************************************)
(* _handle_response: the payload returned, or the error raised.             *)
(***************************************************************************)
Returns(body) == [kind |-> "return", type |-> "", msg |-> NoText, payload |-> body]

Raises(e) == [kind |-> "raise", type |-> e.type, msg |-> e.msg, payload |-> NoFields]

\* error.get('code') without the default
error_code_NoDefault(body) == body.code

\* error.get('code', 'UNKNOWN')
error_code(body) == IF body.hasCode THEN body.code ELSE <<"UNKNOWN">>

\* error.get('message', 'Unknown error')
error_message(body) == IF body.hasMessage THEN body.message ELSE Sp(<<"Unknown", "error">>)

\* f"HTTP {status}: {code} - {message}" and f"HTTP {status}: {reason}"
MsgHttp(status, rest) == HttpPrefix(status) \o <<" ">> \o rest

\* _handle_response that tests `'NOT_FOUND' in error_code` where the code
\* tests equality
_handle_response_NotFoundContained(response) ==
  LET body == response.body IN
  IF response.status >= 400 THEN
    IF body.json
    THEN Raises(TwitterClientError(
           MsgHttp(response.status, error_code(body) \o <<" ", "-", " ">> \o error_message(body))))
    ELSE Raises(TwitterClientError(MsgHttp(response.status, body.reason)))
  ELSE IF ~body.json
    THEN Raises(TwitterClientError(Sp(<<"Invalid", "response", "format:">>) \o <<" ">> \o body.text))
  ELSE IF body.success # "true"
    THEN IF Contains(error_code(body), <<"AUTHENTICATION">>)
         THEN Raises(TwitterClientError(Sp(<<"Authentication", "error:">>) \o <<" ">> \o error_message(body)))
         ELSE IF Contains(error_code(body), <<"NOT_FOUND">>)
         THEN Raises(TwitterClientError(Sp(<<"Resource", "not", "found">>) \o <<":">> \o <<" ">> \o error_message(body)))
         ELSE IF error_code(body) = <<"RATE_LIMITED">>
         THEN Raises(TwitterClientError(Sp(<<"Rate", "limit", "exceeded:">>) \o <<" ">> \o error_message(body)))
         ELSE Raises(TwitterClientError(
                <<"API", " ", "error", " ", "(">> \o error_code(body) \o <<")", ":", " ">> \o error_message(body)))
  ELSE Returns(body)

\* _handle_response that takes a body without a 'success' key for a success
_handle_response_SuccessByDefault(response) ==
  LET body == response.body IN
  IF response.status >= 400 THEN
    IF body.json
    THEN Raises(TwitterClientError(
           MsgHttp(response.status, error_code(body) \o <<" ", "-", " ">> \o error_message(body))))
    ELSE Raises(TwitterClientError(MsgHttp(response.status, body.reason)))
  ELSE IF ~body.json
    THEN Raises(TwitterClientError(Sp(<<"Invalid", "response", "format:">>) \o <<" ">> \o body.text))
  ELSE IF body.success = "false"
    THEN IF Contains(error_code(body), <<"AUTHENTICATION">>)
         THEN Raises(TwitterClientError(Sp(<<"Authentication", "error:">>) \o <<" ">> \o error_message(body)))
         ELSE IF error_code(body) = <<"NOT_FOUND">>
         THEN Raises(TwitterClientError(Sp(<<"Resource", "not", "found">>) \o <<":">> \o <<" ">> \o error_message(body)))
         ELSE IF error_code(body) = <<"RATE_LIMITED">>
         THEN Raises(TwitterClientError(Sp(<<"Rate", "limit", "exceeded:">>) \o <<" ">> \o error_message(body)))
         ELSE Raises(TwitterClientError(
                <<"API", " ", "error", " ", "(">> \o error_code(body) \o <<")", ":", " ">> \o error_message(body)))
  ELSE Returns(body)

_handle_response(response) ==
  LET body == response.body IN
  IF response.status >= 400 THEN
    IF body.json
    THEN Raises(TwitterClientError(
           MsgHttp(response.status, error_code(body) \o <<" ", "-", " ">> \o error_message(body))))
    ELSE Raises(TwitterClientError(MsgHttp(response.status, body.reason)))
  ELSE IF ~body.json
    THEN Raises(TwitterClientError(Sp(<<"Invalid", "response", "format:">>) \o <<" ">> \o body.text))
  ELSE IF body.success # "true"
    THEN IF Contains(error_code(body), <<"AUTHENTICATION">>)
         THEN Raises(TwitterClientError(Sp(<<"Authentication", "error:">>) \o <<" ">> \o error_message(body)))
         ELSE IF error_code(body) = <<"NOT_FOUND">>
         THEN Raises(TwitterClientError(Sp(<<"Resource", "not", "found">>) \o <<":">> \o <<" ">> \o error_message(body)))
         ELSE IF error_code(body) = <<"RATE_LIMITED">>
         THEN Raises(TwitterClientError(Sp(<<"Rate", "limit", "exceeded:">>) \o <<" ">> \o error_message(body)))
         ELSE Raises(TwitterClientError(
                <<"API", " ", "error", " ", "(">> \o error_code(body) \o <<")", ":", " ">> \o error_message(body)))
  ELSE Returns(body)

(***************************************************************************)
(* The client: construction, load_cookies, close, and one request at a     *)
(* time.  pc = "idle": no operation is running; "waiting": network call     *)
(* number `calls` of the running request is with the bridge; "done": the    *)
(* operation has returned or raised and `result` is what the caller gets.   *)
(* session = "open": the attribute holds the requests.Session made by       *)
(* __init__; "closed": the client has no session attribute.  `via` is the   *)
(* session the latest network call of the running request went through,     *)
(* `closes` the number of runs of close(), and `scope` tells whether the     *)
(* client is the subject of a with statement and how its body ended.        *)
(* `args` are the arguments of the running operation, `request` the network *)
(* call of its attempts, `answer` what the operation gives its caller       *)
(* (`result` is the outcome of _make_request).  `supplied` is config.api as *)
(* the caller passed it to the constructor and `loaded` the argument of the *)
(* latest load_cookies.                                                     *)
(***************************************************************************)
Operations == {"get_timeline", "get_latest_tweet", "get_tweets_and_replies", "get_tweet"}

\* the operations that are not implemented
Placeholders == {"search_tweets", "get_profile", "get_trends", "get_mentions"}

\* the keys of config.api that the client reads
ApiKeys == {"base_url", "timeout_seconds", "max_retries", "backoff_base"}

\* the defaults of __init__
DefaultBaseUrl == "http://localhost:3000"
DefaultTimeoutSeconds == 30
DefaultMaxRetries == 3
DefaultBackoffBase == 2

\* the api mapping {"base_url": "http://localhost:3000"} that __init__ assigns;
\* a mapping is the set of its keys and their values, and a key that is not
\* in `keys` has no value (the 0 or "" written there is never read)
BaseUrlOnly ==
  [keys |-> {"base_url"}, base_url |-> DefaultBaseUrl, timeout_seconds |-> 0,
   max_retries |-> 0, backoff_base |-> 0]

\* `if key not in api: api[key] = value`
SetDefault(api, key, value) ==
  IF key \in api.keys THEN api
  ELSE [[api EXCEPT !.keys = api.keys \cup {key}] EXCEPT ![key] = value]

\* __init__ that leaves the mapping as it was passed
InjectDefaults_Nothing(api) == api

\* what __init__ makes of config.api: a mapping without base_url is replaced
\* by one that holds the default base_url alone, then each of the other
\* three keys that is absent gets its default
InjectDefaults(api) ==
  LET based == IF "base_url" \notin api.keys THEN BaseUrlOnly ELSE api
  IN SetDefault(SetDefault(SetDefault(based,
       "timeout_seconds", DefaultTimeoutSeconds),
       "max_retries", DefaultMaxRetries),
       "backoff_base", DefaultBackoffBase)

\* config.api after construction, as the client reads it in _make_request
Configs ==
  [keys : {ApiKeys}, base_url : {DefaultBaseUrl},
   timeout_seconds : {DefaultTimeoutSeconds},
   max_retries : 0..MaxRetriesBound, backoff_base : 1..MaxBackoffBase]

\* count=20 of get_timeline and get_tweets_and_replies
DefaultCount == 20

\* the arguments of a public operation: `count`, `tweet_id`, and for a
\* direct call of _make_request its `data`: "None", the empty dict, or a
\* dict that has a 'cookies' key of the caller's
NoData == "None"

DefaultArguments == [count |-> DefaultCount, tweet_id |-> "42", data |-> NoData]

\* no network call made
NoRequest ==
  [method |-> "none", url |-> NoText, Cookie |-> NoText, hasJson |-> FALSE,
   hasCount |-> FALSE, count |-> 0, includeReplies |-> "absent",
   cookies |-> EmptyEssentials, timeout |-> 0]

\* a direct call _make_request('POST', '/api/timeline', data)
DirectCall == "_make_request"

\* the 'cookies' entry of a caller's data
CallerCookies == [k \in RequiredSet |-> ""]

\* the HTTP method of an operation
Method(o) == IF o = "get_tweet" THEN "GET" ELSE "POST"

\* the endpoint of an operation
Endpoint(o, a) ==
  IF o = "get_tweet" THEN <<"/api/tweet/", a.tweet_id>> ELSE <<"/api/timeline">>

\* whether the data of the operation has a 'count'
HasCount(o, a) == Method(o) = "POST" /\ o # DirectCall

\* the count an operation asks for: get_latest_tweet calls get_timeline(count=1)
CountOf(o, a) ==
  IF ~HasCount(o, a) THEN 0
  ELSE IF o = "get_latest_tweet" THEN 1
  ELSE a.count

\* every timeline request asking for replies
IncludeReplies_Always(o) == IF Method(o) = "POST" THEN "true" ELSE "absent"

\* the 'includeReplies' entry of the operation's data
IncludeReplies(o) == IF o = "get_tweets_and_replies" THEN "true" ELSE "absent"

\* a body that keeps the 'cookies' of the caller's data
BodyCookies_CallerFirst(a, cd) ==
  IF a.data = "WithCookies" THEN CallerCookies ELSE get_essential_cookies(cd)

\* request_data['cookies'] = self.get_essential_cookies()
BodyCookies(a, cd) == get_essential_cookies(cd)

\* timeout_seconds = self.config.api.get('timeout_seconds', 30)
TimeoutOf(api) ==
  IF "timeout_seconds" \in api.keys THEN api.timeout_seconds ELSE DefaultTimeoutSeconds

\* url = f"{self.config.api['base_url']}{endpoint}"
UrlOf(api, endpoint) == <<api.base_url>> \o endpoint

\* the call session.post(url, json=request_data, headers=headers, timeout=...)
\* or session.get(url, headers=headers, timeout=...) of one attempt: the url
\* and the Cookie header are built before the loop, the body in each attempt
\* from the operation's data with 'cookies' set to the essentials
RequestOf(o, a, cd, api) ==
  IF Method(o) = "POST"
  THEN [NoRequest EXCEPT !.method = "POST",
                         !.url = UrlOf(api, Endpoint(o, a)),
                         !.Cookie = get_cookie_header(cd),
                         !.hasJson = TRUE,
                         !.hasCount = HasCount(o, a),
                         !.count = CountOf(o, a),
                         !.includeReplies = IncludeReplies(o),
                         !.cookies = BodyCookies(a, cd),
                         !.timeout = TimeoutOf(api)]
  ELSE [NoRequest EXCEPT !.method = "GET",
                         !.url = UrlOf(api, Endpoint(o, a)),
                         !.Cookie = get_cookie_header(cd),
                         !.timeout = TimeoutOf(api)]

\* the Tweet that _normalize_tweet makes of a raw tweet: a raw tweet is
\* written as the value of its 'id', "" when it has none, and the Tweet
\* carries it as its id
_normalize_tweet(tweet_data) == [id |-> tweet_data]

\* what a public operation gives its caller
NoAnswer ==
  [kind |-> "none", type |-> "", msg |-> NoText, shape |-> "none", tweets |-> <<>>]

\* the operation raises `e`
AnswerRaises(e) == [NoAnswer EXCEPT !.kind = "raise", !.type = e.type, !.msg = e.msg]

\* the operation returns None
AnswerNone == [NoAnswer EXCEPT !.kind = "return"]

\* the operation returns a list of Tweets
AnswerList(ts) == [NoAnswer EXCEPT !.kind = "return", !.shape = "list", !.tweets = ts]

\* _make_request returns the payload to its caller
AnswerPayload == [NoAnswer EXCEPT !.kind = "return", !.shape = "payload"]

\* the operation returns one Tweet
AnswerTweet(t) == [NoAnswer EXCEPT !.kind = "return", !.shape = "tweet", !.tweets = <<t>>]

\* what a method that adds nothing to the outcome `r` gives its caller
AnswerAs(r) == IF r.kind = "raise" THEN AnswerRaises(r) ELSE AnswerNone

MsgNoTweets == Sp(<<"No", "tweets", "found">>)

\* data.get('data', []) of the list operations
tweet_list(payload) == IF payload.hasData THEN payload.data ELSE <<>>

\* [self._normalize_tweet(tweet_data) for tweet_data in tweet_list]
NormalizeAll(raw) == [i \in 1..Len(raw) |-> _normalize_tweet(raw[i])]

\* get_timeline and get_tweets_and_replies on the payload of _make_request
get_timeline(payload) == NormalizeAll(tweet_list(payload))

\* get_latest_tweet without the test of emptiness: tweets[0] on an empty list
get_latest_tweet_Unchecked(tweets) ==
  IF Len(tweets) = 0 THEN AnswerRaises([type |-> "IndexError", msg |-> NoText])
  ELSE AnswerTweet(tweets[1])

\* get_latest_tweet on the list that get_timeline(count=1) returned
get_latest_tweet(tweets) ==
  IF Len(tweets) = 0 THEN AnswerRaises(TwitterClientError(MsgNoTweets))
  ELSE AnswerTweet(tweets[1])

\* get_tweet on the payload: data.get('data', {}), normalized
get_tweet(payload) ==
  AnswerTweet(_normalize_tweet(IF payload.hasData THEN payload.data[1] ELSE ""))

\* what the operation `o` makes of the outcome `r` of _make_request: an
\* error goes to the caller as it is
PublicResult(o, r) ==
  IF r.kind = "none" THEN NoAnswer
  ELSE IF r.kind = "raise" THEN AnswerRaises(r)
  ELSE IF o = "get_tweet" THEN get_tweet(r.payload)
  ELSE IF o = "get_latest_tweet" THEN get_latest_tweet(get_timeline(r.payload))
  ELSE IF o \in {"get_timeline", "get_tweets_and_replies"}
       THEN AnswerList(get_timeline(r.payload))
  ELSE AnswerPayload

\* the shape of 'data' that the bridge sends for an operation: one tweet for
\* /api/tweet/<id>, a list for /api/timeline
Suits(o, r) ==
  r.body.dataKind \in {"none", IF o = "get_tweet" THEN "mapping" ELSE "list"}

\* the text before "is not yet implemented" in a placeholder's message
PlaceholderSubject(o) ==
  CASE o = "search_tweets" -> <<"Search", "functionality">>
    [] o = "get_profile" -> <<"Profile", "retrieval">>
    [] o = "get_trends" -> <<"Trends", "functionality">>
    [] o = "get_mentions" -> <<"Mentions", "functionality">>

MsgNotImplemented(o) ==
  Sp(PlaceholderSubject(o)
     \o <<"is", "not", "yet", "implemented", "due", "to", "library", "limitations">>)

NoResult == [kind |-> "none", type |-> "", msg |-> NoText, payload |-> NoFields]

NoResponse == [status |-> 0, body |-> NoFields]

\* the failure classes of one attempt, as the retry loop tells them apart
TransientStatuses == {502, 503, 504}

\* any(status in error_msg for status in ["HTTP 502:", "HTTP 503:", "HTTP 504:"])
IsTransientMessage(error_msg) ==
  \E st \in TransientStatuses : Contains(error_msg, HttpPrefix(st))

\* a backoff that multiplies where the code raises to a power
BackoffDelay_Linear(backoff_base, k) == backoff_base * k

\* time.sleep(backoff_base ** attempt)
BackoffDelay(backoff_base, k) == backoff_base ^ k

\* not the subject of a with statement
NoScope == [state |-> "none", exc |-> "none"]

\* how the body of a with statement ends: normally, or by raising
BodyExceptions == {"none", "KeyError", "TwitterClientError"}

\* a method that returns None
ReturnsNone == Returns(NoFields)

\* TwitterClient(config): the state after construction
Construct ==
  /\ cookie_data = NoBundle
  /\ config \in Configs
  /\ session = "open"
  /\ pc = "idle"
  /\ op = "none"
  /\ attempt = 0
  /\ calls = 0
  /\ sleeps = <<>>
  /\ history = <<>>
  /\ last_response = NoResponse
  /\ result = NoResult
  /\ closes = 0
  /\ via = "none"
  /\ args = DefaultArguments
  /\ request = NoRequest
  /\ answer = NoAnswer
  /\ supplied = config
  /\ loaded = NoBundle

Init ==
  /\ Construct
  /\ scope = NoScope

\* dict.update in place of the assignment: the keys of the bundle held
\* before stay unless the new bundle has them
MergeBundles(old, b) ==
  IF old.isNone THEN b
  ELSE IF b.isNone THEN old
  ELSE [isNone |-> FALSE,
        hasCookies |-> old.hasCookies \/ b.hasCookies,
        hasHeader |-> old.hasHeader \/ b.hasHeader,
        cookieHeader |-> IF b.hasHeader THEN b.cookieHeader ELSE old.cookieHeader,
        hasEssentials |-> old.hasEssentials \/ b.hasEssentials,
        essentials |-> IF b.hasEssentials THEN b.essentials ELSE old.essentials]

\* a load_cookies that merges the new bundle into the one held
load_cookies_Merge(b) ==
  /\ pc = "idle"
  /\ cookie_data' = MergeBundles(cookie_data, b)
  /\ loaded' = b
  /\ UNCHANGED <<config, session, pc, op, attempt, calls, sleeps, history, last_response,
                 result, closes, scope, via, args, request, answer, supplied>>

\* self.cookie_data = cookie_data
load_cookies(b) ==
  /\ pc = "idle"
  /\ cookie_data' = b
  /\ loaded' = b
  /\ UNCHANGED <<config, session, pc, op, attempt, calls, sleeps, history, last_response,
                 result, closes, scope, via, args, request, answer, supplied>>

\* the operation ends: `r` is what it returned or raised
Finish(r) ==
  /\ pc' = "done"
  /\ result' = r

\* close() without the hasattr guard: self.session.close() on a client
\* that has no session
CloseEffect_Unguarded(s) ==
  IF s = "open"
  THEN [session |-> "closed", outcome |-> ReturnsNone]
  ELSE [session |-> s, outcome |-> Raises(AttributeError)]

\* the body of close(): the session attribute after it, and what it returns
CloseEffect(s) ==
  IF s = "open"
  THEN [session |-> "closed", outcome |-> ReturnsNone]
  ELSE [session |-> s, outcome |-> ReturnsNone]

\* one more run of close()
CountClose == closes' = (IF closes < MaxCloses THEN closes + 1 ELSE closes)

\* client.close() is called
close ==
  /\ pc = "idle"
  /\ op' = "close"
  /\ session' = CloseEffect(session).session
  /\ Finish(CloseEffect(session).outcome)
  /\ CountClose
  /\ answer' = AnswerAs(result')
  /\ UNCHANGED <<cookie_data, config, attempt, calls, sleeps, history, last_response,
                 scope, via, args, request, supplied, loaded>>

\* the attribute client.session is read
read_session ==
  /\ pc = "idle"
  /\ op' = "session"
  /\ Finish(IF session = "closed" THEN Raises(AttributeError) ELSE ReturnsNone)
  /\ answer' = AnswerAs(result')
  /\ UNCHANGED <<cookie_data, config, session, attempt, calls, sleeps, history,
                 last_response, closes, scope, via, args, request, supplied, loaded>>

\* an __exit__ that returns True
ExitSuppresses_Always == TRUE

\* the truth value of what __exit__ returns: None
ExitSuppresses == FALSE

\* the with statement is left, normally or with the exception `exc` of its
\* body: __exit__ runs close(), and the caller gets the exception unless
\* __exit__ returned a true value
__exit__(exc) ==
  /\ pc = "idle"
  /\ scope.state = "with"
  /\ op' = "__exit__"
  /\ session' = CloseEffect(session).session
  /\ Finish(IF CloseEffect(session).outcome.kind = "raise" THEN CloseEffect(session).outcome
            ELSE IF exc = "none" \/ ExitSuppresses THEN ReturnsNone
            ELSE Raises([type |-> exc, msg |-> NoText]))
  /\ CountClose
  /\ scope' = [state |-> "exited", exc |-> exc]
  /\ answer' = AnswerAs(result')
  /\ UNCHANGED <<cookie_data, config, attempt, calls, sleeps, history, last_response, via,
                 args, request, supplied, loaded>>

\* a network call that does not use the client's session
SessionForCall_Fresh == "fresh"

\* self.session, through which the network call is made
SessionForCall == session

\* the loop body that makes its network call without looking up self.session
IssueCall_NoSessionLookup(k) ==
  /\ pc' = "waiting"
  /\ attempt' = k
  /\ calls' = calls + 1
  /\ UNCHANGED result

\* the loop body up to the network call: with no session the attribute lookup
\* self.session fails and AttributeError leaves the loop uncaught
IssueCall(k) ==
  IF session = "closed"
  THEN /\ Finish(Raises(AttributeError))
       /\ UNCHANGED <<attempt, calls>>
  ELSE /\ pc' = "waiting"
       /\ attempt' = k
       /\ calls' = calls + 1
       /\ UNCHANGED result

\* the loop with range(max_retries + 1)
Iterate_OneMore(k) ==
  IF k <= config.max_retries
  THEN IssueCall(k)
  ELSE /\ Finish(Raises(TwitterClientError(MsgMaxRetries)))
       /\ UNCHANGED <<attempt, calls>>

\* for attempt in range(max_retries): the iteration with index k, or the
\* statement after the loop
Iterate(k) ==
  IF k < config.max_retries
  THEN IssueCall(k)
  ELSE /\ Finish(Raises(TwitterClientError(MsgMaxRetries)))
       /\ UNCHANGED <<attempt, calls>>

\* a placeholder that asks for authentication before it fails
PlaceholderOutcome_Gated(o, cd) ==
  IF _check_authentication(cd).kind = "raise" THEN Raises(_check_authentication(cd))
  ELSE Raises(TwitterClientError(MsgNotImplemented(o)))

\* what a placeholder method does with the client's bundle: nothing, it raises
PlaceholderOutcome(o, cd) == Raises(TwitterClientError(MsgNotImplemented(o)))

\* search_tweets, get_profile, get_trends or get_mentions is called
Placeholder(o) ==
  /\ pc = "idle"
  /\ op' = o
  /\ Finish(PlaceholderOutcome(o, cookie_data))
  /\ answer' = AnswerAs(result')
  /\ UNCHANGED <<cookie_data, config, session, attempt, calls, sleeps, history,
                 last_response, closes, scope, via, args, request, supplied, loaded>>

\* the public request operation `o` is called with the arguments `a`:
\* _check_authentication, then the loop
Invoke(o, a) ==
  /\ pc = "idle"
  /\ op' = o
  /\ args' = a
  /\ LET auth == _check_authentication(cookie_data) IN
     IF auth.kind = "raise"
     THEN /\ Finish(Raises(auth))
          /\ UNCHANGED <<attempt, calls>>
     ELSE Iterate(0)
  /\ via' = (IF pc' = "waiting" THEN SessionForCall ELSE via)
  /\ request' = (IF pc' = "waiting" THEN RequestOf(o, a, cookie_data, config) ELSE request)
  /\ answer' = PublicResult(o, result')
  /\ UNCHANGED <<cookie_data, config, session, sleeps, history, last_response, closes, scope,
                 supplied, loaded>>

\* a public request operation is called with its default arguments
Call(o) == Invoke(o, DefaultArguments)

\* handlers that never raise themselves and leave the final failure to the
\* statement after the loop
RetryOrRaise_NeverRaise(e) ==
  /\ sleeps' = Append(sleeps, BackoffDelay(config.backoff_base, attempt))
  /\ Iterate(attempt + 1)

\* handlers that go on without sleeping
RetryOrRaise_NoSleep(e) ==
  IF attempt = config.max_retries - 1
  THEN /\ Finish(e)
       /\ UNCHANGED <<attempt, calls, sleeps>>
  ELSE /\ UNCHANGED sleeps
       /\ Iterate(attempt + 1)

\* the handlers' common tail: raise on the final attempt, else sleep and go on
RetryOrRaise(e) ==
  IF attempt = config.max_retries - 1
  THEN /\ Finish(e)
       /\ UNCHANGED <<attempt, calls, sleeps>>
  ELSE /\ sleeps' = Append(sleeps, BackoffDelay(config.backoff_base, attempt))
       /\ Iterate(attempt + 1)

\* how an attempt ended, as the bridge decides it: "timeout", "connection",
\* or a response: with a transient status, with another error status, or with
\* a good status and a body that is not JSON, says success, or does not
ResponseClass(r) ==
  IF r.status \in TransientStatuses THEN "transient"
  ELSE IF r.status >= 400 THEN "http_error"
  ELSE IF ~r.body.json THEN "ok_malformed"
  ELSE IF r.body.success = "true" THEN "ok_success"
  ELSE "ok_failure"

\* except requests.Timeout
Timeout ==
  /\ pc = "waiting"
  /\ history' = Append(history, "timeout")
  /\ last_response' = NoResponse
  /\ RetryOrRaise(Raises(TwitterClientError(MsgTimeout)))
  /\ via' = (IF pc' = "waiting" THEN SessionForCall ELSE via)
  /\ answer' = PublicResult(op, result')
  /\ UNCHANGED <<cookie_data, config, session, op, closes, scope, args, request, supplied,
                 loaded>>

\* except requests.ConnectionError
ConnectionError ==
  /\ pc = "waiting"
  /\ history' = Append(history, "connection")
  /\ last_response' = NoResponse
  /\ RetryOrRaise(Raises(TwitterClientError(MsgConnection)))
  /\ via' = (IF pc' = "waiting" THEN SessionForCall ELSE via)
  /\ answer' = PublicResult(op, result')
  /\ UNCHANGED <<cookie_data, config, session, op, closes, scope, args, request, supplied,
                 loaded>>

\* except TwitterClientError as e: the decision to retry
ShouldRetry(e) == IsTransientMessage(e.msg)

\* the bridge answers: return self._handle_response(response), and the
\* handler of the TwitterClientError it may raise
Response(r) ==
  /\ pc = "waiting"
  /\ Suits(op, r)
  /\ history' = Append(history, ResponseClass(r))
  /\ LET h == _handle_response(r) IN
     IF h.kind = "return"
     THEN /\ Finish(h)
          /\ last_response' = r
          /\ UNCHANGED <<attempt, calls, sleeps>>
     ELSE IF ShouldRetry(h)
     THEN /\ RetryOrRaise(h)
          /\ last_response' = IF attempt = config.max_retries - 1 THEN r ELSE NoResponse
     ELSE /\ Finish(h)
          /\ last_response' = r
          /\ UNCHANGED <<attempt, calls, sleeps>>
  /\ via' = (IF pc' = "waiting" THEN SessionForCall ELSE via)
  /\ answer' = PublicResult(op, result')
  /\ UNCHANGED <<cookie_data, config, session, op, closes, scope, args, request, supplied,
                 loaded>>

\* a client that keeps the loop's counters and the sleeps of one request
\* for the next one
ReturnNoting_KeepsRetryState(note) ==
  /\ pc = "done"
  /\ pc' = "idle"
  /\ op' = "none"
  /\ history' = note
  /\ last_response' = NoResponse
  /\ result' = NoResult
  /\ via' = "none"
  /\ args' = DefaultArguments
  /\ request' = NoRequest
  /\ answer' = NoAnswer
  /\ UNCHANGED <<cookie_data, config, session, attempt, calls, sleeps, closes, scope,
                 supplied, loaded>>

\* the caller has the result; the client is ready for the next operation:
\* the loop's counter, the calls and the sleeps are those of one call of
\* _make_request and end with it.  `note` is what the observer of the
\* attempts writes down at the head of the next request's history
ReturnNoting(note) ==
  /\ pc = "done"
  /\ pc' = "idle"
  /\ op' = "none"
  /\ attempt' = 0
  /\ calls' = 0
  /\ sleeps' = <<>>
  /\ history' = note
  /\ last_response' = NoResponse
  /\ result' = NoResult
  /\ via' = "none"
  /\ args' = DefaultArguments
  /\ request' = NoRequest
  /\ answer' = NoAnswer
  /\ UNCHANGED <<cookie_data, config, session, closes, scope, supplied, loaded>>

\* the same, with nothing written down
Return == ReturnNoting(<<>>)

Next ==
  \/ \E b \in Bundles : load_cookies(b)
  \/ close
  \/ read_session
  \/ \E o \in Operations : Call(o)
  \/ Timeout
  \/ ConnectionError
  \/ \E r \in Responses : Response(r)
  \/ Return

Spec == Init /\ [][Next]_vars

\* with TwitterClient(config) as client: the state when the body begins
\* (__enter__ returns the client itself)
InitWith ==
  /\ Construct
  /\ scope = [state |-> "with", exc |-> "none"]

NextWith ==
  \/ Next
  \/ \E exc \in BodyExceptions : __exit__(exc)

SpecWith == InitWith /\ [][NextWith]_vars

(***************************************************************************)
(* The bridge, or the transport below it, ends every attempt: session.post *)
(* and session.get are blocking calls that return a response or raise      *)
(* within the timeout they were given, time.sleep returns, and the caller   *)
(* takes the result.                                                        *)
(***************************************************************************)
\* bundles a caller loads: complete with a header of all pairs, of
\* two pairs, or without cookieHeader, and one that lacks auth_token
CallerBundles ==
  {[isNone |-> FALSE, hasCookies |-> TRUE, hasHeader |-> TRUE,
    cookieHeader |-> h, hasEssentials |-> TRUE, essentials |-> FullEssentials] :
     h \in {FullHeader, PartialHeader}}
  \cup {[isNone |-> FALSE, hasCookies |-> TRUE, hasHeader |-> FALSE,
         cookieHeader |-> <<>>, hasEssentials |-> TRUE, essentials |-> FullEssentials],
        [isNone |-> FALSE, hasCookies |-> TRUE, hasHeader |-> TRUE,
         cookieHeader |-> FullHeader, hasEssentials |-> TRUE,
         essentials |-> [FullEssentials EXCEPT !["auth_token"] = "absent"]]}

\* the answers of this bridge: one or more of each class of ResponseClass,
\* among them the bodies with an ok status that quote a transient status
BridgeResponses ==
  {r \in Responses :
     \/ r.status = 200 /\ r.body \in RawResponses
     \/ r.status = 200 /\ r.body \in SuccessEnvelopes /\ r.body.hasData
     \/ r.status = 200 /\ r.body.success = "false" /\ r.body.code = <<"SERVER_ERROR">>
     \/ r.status \in {404, 503} /\ r.body.json /\ r.body.success = "absent" /\ ~r.body.hasCode}

\* the network call of the attempt returns or raises
AttemptEnds ==
  \/ Timeout
  \/ ConnectionError
  \/ \E r \in BridgeResponses : Response(r)

NextBridge ==
  \/ \E b \in CallerBundles : load_cookies(b)
  \/ \E o \in Operations : Call(o)
  \/ AttemptEnds
  \/ Return

SpecFair == Init /\ [][NextBridge]_vars /\ WF_vars(AttemptEnds)

(***************************************************************************)
(* One request after another on the same client.  The observer heads the   *)
(* history of a request with a note when the request before it on this     *)
(* client failed.                                                           *)
(***************************************************************************)
FailedEarlier == "failed earlier"

\* the note about the operation that is over
NoteOf(r) == IF r.kind = "raise" THEN <<FailedEarlier>> ELSE <<>>

NextAgain ==
  \/ \E b \in CallerBundles : load_cookies(b)
  \/ \E o \in Operations : Call(o)
  \/ AttemptEnds
  \/ ReturnNoting(NoteOf(result))

SpecAgain == Init /\ [][NextAgain]_vars

(***************************************************************************)
(* A client that holds a complete bundle and is given others: any dict, or *)
(* None.                                                                    *)
(***************************************************************************)
\* a few answers of the bridge: success with data, a transient status, an
\* error status
CallerResponses ==
  {[status |-> 200, body |-> b] :
     b \in {e \in SuccessEnvelopes : e.hasData}}
  \cup {[status |-> 503, body |-> b] : b \in {e \in RawResponses : e.text = <<"<html>">>}}
  \cup {[status |-> 404, body |-> b] :
          b \in {e \in ErrorEnvelopes : e.success = "false" /\ ~e.hasCode}}

\* a bundle with all five essentials and a cookieHeader of their pairs
CompleteBundle ==
  [isNone |-> FALSE, hasCookies |-> TRUE, hasHeader |-> TRUE,
   cookieHeader |-> FullHeader, hasEssentials |-> TRUE, essentials |-> FullEssentials]

\* the state after TwitterClient(config) and load_cookies(CompleteBundle)
InitReload ==
  /\ config \in Configs
  /\ supplied = config
  /\ cookie_data = CompleteBundle
  /\ loaded = CompleteBundle
  /\ pc = "idle"
  /\ session = "open"
  /\ op = "none"
  /\ attempt = 0
  /\ calls = 0
  /\ sleeps = <<>>
  /\ history = <<>>
  /\ last_response = NoResponse
  /\ result = NoResult
  /\ closes = 0
  /\ via = "none"
  /\ args = DefaultArguments
  /\ request = NoRequest
  /\ answer = NoAnswer
  /\ scope = NoScope

NextReload ==
  \/ \E b \in Bundles \cup {NoBundle} : load_cookies(b)
  \/ \E o \in Operations : Call(o)
  \/ Timeout
  \/ ConnectionError
  \/ \E r \in CallerResponses : Response(r)
  \/ Return

SpecReload == InitReload /\ [][NextReload]_vars

(***************************************************************************)
(* The client from its construction on: a caller builds an AppConfig whose *)
(* api mapping holds any subset of the four keys, constructs the client    *)
(* with it, loads bundles and calls the operations with arguments of its   *)
(* own.  pc = "new" is the state before TwitterClient(config) runs.         *)
(***************************************************************************)
\* the values a caller writes into config.api: AppConfig checks the format of
\* base_url and the sign of the key 'timeout', and accepts any value of the
\* other keys
CallerValues ==
  [base_url : {"http://bridge:8080"}, timeout_seconds : {0, 10},
   max_retries : {1}, backoff_base : {3}]

\* the api mappings a caller passes: any subset of the four keys
CallerApis ==
  {[keys |-> K,
    base_url |-> IF "base_url" \in K THEN v.base_url ELSE "",
    timeout_seconds |-> IF "timeout_seconds" \in K THEN v.timeout_seconds ELSE 0,
    max_retries |-> IF "max_retries" \in K THEN v.max_retries ELSE 0,
    backoff_base |-> IF "backoff_base" \in K THEN v.backoff_base ELSE 0] :
     K \in SUBSET ApiKeys, v \in CallerValues}

\* the arguments this caller passes to an operation
ArgumentsOf(o) ==
  IF o \in {"get_timeline", "get_tweets_and_replies"}
  THEN {[DefaultArguments EXCEPT !.count = c] : c \in {DefaultCount, 50}}
  ELSE IF o = "get_tweet"
  THEN {[DefaultArguments EXCEPT !.tweet_id = t] : t \in {"42", "7"}}
  ELSE IF o = DirectCall
  THEN {[DefaultArguments EXCEPT !.data = d] : d \in {NoData, "Empty", "WithCookies"}}
  ELSE {DefaultArguments}

\* before TwitterClient(config): the caller holds the AppConfig it built
InitCaller ==
  /\ supplied \in CallerApis
  /\ config = supplied
  /\ pc = "new"
  /\ session = "closed"
  /\ cookie_data = NoBundle
  /\ op = "none"
  /\ attempt = 0
  /\ calls = 0
  /\ sleeps = <<>>
  /\ history = <<>>
  /\ last_response = NoResponse
  /\ result = NoResult
  /\ closes = 0
  /\ via = "none"
  /\ args = DefaultArguments
  /\ request = NoRequest
  /\ answer = NoAnswer
  /\ loaded = NoBundle
  /\ scope = NoScope

\* TwitterClient(config): self.config is the caller's object, and the
\* defaults are written into its api mapping
__init__ ==
  /\ pc = "new"
  /\ pc' = "idle"
  /\ config' = InjectDefaults(config)
  /\ session' = "open"
  /\ UNCHANGED <<cookie_data, op, attempt, calls, sleeps, history, last_response, result,
                 closes, scope, via, args, request, answer, supplied, loaded>>

NextConfigured ==
  \/ __init__
  \/ \E b \in CallerBundles : load_cookies(b)
  \/ close
  \/ \E o \in Operations \cup {DirectCall} : \E a \in ArgumentsOf(o) : Invoke(o, a)
  \/ \E o \in Placeholders : Placeholder(o)
  \/ Timeout
  \/ ConnectionError
  \/ \E r \in CallerResponses : Response(r)
  \/ Return

SpecConfigured == InitCaller /\ [][NextConfigured]_vars

(***************************************************************************)
(* The error kinds of the specification, told apart by the message of the  *)
(* TwitterClientError raised.                                               *)
(***************************************************************************)
IsAuthenticationMissing(r) ==
  /\ r.kind = "raise"
  /\ r.type = "TwitterClientError"
  /\ StartsWith(r.msg, Sp(<<"Authentication", "cookies">>))

IsTransportUnavailable(r) ==
  /\ r.kind = "raise"
  /\ r.type = "TwitterClientError"
  /\ r.msg \in {MsgTimeout, MsgConnection}

IsRetriesExhausted(r) ==
  /\ r.kind = "raise"
  /\ r.type = "TwitterClientError"
  /\ r.msg = MsgMaxRetries

\* a bundle in which one of the five keys is missing from essentials or empty
\* (no bundle, and a bundle without essentials, miss all five)
MissingEssential(cd) ==
  \/ cd.isNone
  \/ ~cd.hasEssentials
  \/ \E k \in RequiredSet : cd.essentials[k] \in {"absent", ""}

\* a loaded bundle whose essentials hold all five keys with non-empty values
CompleteEssentials(cd) ==
  /\ ~cd.isNone
  /\ cd.hasEssentials
  /\ \A k \in RequiredSet : cd.essentials[k] = "v"

\* the cookieHeader key is present and its value is not empty
HasCookieHeader(cd) == ~cd.isNone /\ cd.hasHeader /\ cd.cookieHeader # <<>>

\* the running operation has failed at the authentication gate: it raised the
\* authentication error and no network call was made
FailedAtGate ==
  /\ pc = "done"
  /\ IsAuthenticationMissing(result)
  /\ calls = 0
  /\ history = <<>>

(***************************************************************************)
(* Claims.                                                                  *)
(***************************************************************************)

\* C1: with a bundle (or none) in which one of the five essential cookies is
\* missing or empty, is_authenticated() is false and each of the four request
\* operations fails with the authentication error before any network call.
C1_GateBlocksIncompleteBundle ==
  MissingEssential(cookie_data) =>
    /\ ~is_authenticated(cookie_data)
    /\ (pc # "idle" /\ op \in Operations => FailedAtGate)

\* C1 witness: get_tweet was called with a bundle whose header and essentials
\* are present but whose att cookie is empty, and has failed.
C1_Witness ==
  /\ pc = "done"
  /\ op = "get_tweet"
  /\ cookie_data.hasHeader
  /\ cookie_data.cookieHeader # <<>>
  /\ cookie_data.hasEssentials
  /\ cookie_data.essentials["att"] = ""
  /\ result.msg = MsgCookiesInvalid

\* C2: is_authenticated() is true exactly for a loaded bundle whose essentials
\* hold all five required cookies with non-empty values.
C2_AuthenticatedIffComplete ==
  is_authenticated(cookie_data) <=> CompleteEssentials(cookie_data)

\* C2 witness: a bundle that holds nothing but complete essentials is loaded
\* and is_authenticated() is true of it.
C2_Witness ==
  /\ is_authenticated(cookie_data)
  /\ ~cookie_data.hasHeader
  /\ pc = "idle"

\* C3: a network call is made only with a bundle that has a non-empty
\* cookieHeader, non-empty essentials and is authenticated; complete
\* essentials without a (non-empty) cookieHeader fail at the gate.
C3_CallsOnlyWithCompleteBundle ==
  /\ (calls > 0 \/ pc = "waiting" \/ history # <<>>) =>
       /\ HasCookieHeader(cookie_data)
       /\ cookie_data.hasEssentials
       /\ EssentialsTruthy(cookie_data.essentials)
       /\ is_authenticated(cookie_data)
  /\ ( /\ CompleteEssentials(cookie_data)
       /\ ~HasCookieHeader(cookie_data)
       /\ pc # "idle"
       /\ op \in Operations ) =>
       FailedAtGate

\* C3 witness: a request was made with complete essentials and an empty
\* cookieHeader, and has failed.
C3_Witness ==
  /\ pc = "done"
  /\ CompleteEssentials(cookie_data)
  /\ cookie_data.hasHeader
  /\ cookie_data.cookieHeader = <<>>
  /\ IsAuthenticationMissing(result)

\* C4: one request makes at most max_retries network calls: no outcome leads
\* to an attempt beyond the max_retries-th.
C4_AtMostMaxRetriesCalls ==
  /\ calls <= config.max_retries
  /\ Len(history) <= calls
  /\ (pc = "waiting" => attempt < config.max_retries)

\* C4 witness: every allowed attempt was made and failed, for three kinds of
\* failure.
C4_Witness ==
  /\ pc = "done"
  /\ config.max_retries = 3
  /\ calls = 3
  /\ history = <<"timeout", "connection", "transient">>

C6_OkStatusFailureNotRetried ==
  \A i \in 1..Len(history) :
    history[i] \in {"ok_failure", "ok_malformed"} =>
      /\ i = Len(history)
      /\ pc = "done"
      /\ calls = i
      /\ Len(sleeps) = i - 1
      /\ result = _handle_response(last_response)

\* C7 as stated: a response with a status of 400 or more is followed by a
\* further attempt exactly when the status is 502, 503 or 504 and attempts
\* remain; any other such status ends the request with its HttpError, without
\* a sleep.
C7_OnlyTransientStatusRetried ==
  \A i \in 1..Len(history) :
    /\ history[i] = "http_error" =>
         /\ i = Len(history)
         /\ pc = "done"
         /\ calls = i
         /\ Len(sleeps) = i - 1
         /\ result = _handle_response(last_response)
    /\ history[i] = "transient" =>
         ((i < Len(history) \/ pc = "waiting") <=> i < config.max_retries)

\* C8: when each of the max_retries (>= 1) attempts ends in a timeout or a
\* connection failure, the request fails with TransportUnavailable after
\* exactly max_retries network calls and max_retries - 1 sleeps, and makes no
\* further attempt.
C8_TransportFailuresExhaust ==
  ( /\ config.max_retries >= 1
    /\ Len(history) >= config.max_retries
    /\ \A i \in 1..config.max_retries : history[i] \in {"timeout", "connection"} ) =>
      /\ pc = "done"
      /\ Len(history) = config.max_retries
      /\ IsTransportUnavailable(result)
      /\ result.msg = (IF history[Len(history)] = "timeout" THEN MsgTimeout ELSE MsgConnection)
      /\ calls = config.max_retries
      /\ Len(sleeps) = config.max_retries - 1

\* C8 witness: three transport failures with max_retries = 3.
C8_Witness ==
  /\ config.max_retries = 3
  /\ history = <<"timeout", "connection", "timeout">>
  /\ pc = "done"
  /\ result.msg = MsgTimeout

\* C9: when attempt 0 gets a transient HTTP status and attempt 1 a success
\* envelope with a good status, the request returns the payload of attempt 1
\* after exactly two network calls and exactly one sleep.
C9_TransientThenSuccess ==
  ( /\ Len(history) >= 2
    /\ history[1] = "transient"
    /\ history[2] = "ok_success" ) =>
      /\ config.max_retries >= 2
      /\ Len(history) = 2
      /\ pc = "done"
      /\ last_response.status < 400
      /\ result = Returns(last_response.body)
      /\ calls = 2
      /\ Len(sleeps) = 1

\* C9 witness: a transient status, then a success envelope with two tweets.
C9_Witness ==
  /\ history = <<"transient", "ok_success">>
  /\ result.kind = "return"
  /\ result.payload.data = <<"t1", "t2">>

\* C10: when the final allowed attempt gets a transient HTTP status, the
\* request raises the HttpError classified for that response (its status,
\* code and message), not TransportUnavailable and not RetriesExhausted, and
\* does not sleep after it.
C10_FinalTransientReraised ==
  ( /\ config.max_retries >= 1
    /\ Len(history) >= config.max_retries
    /\ history[config.max_retries] = "transient" ) =>
      /\ pc = "done"
      /\ Len(history) = config.max_retries
      /\ last_response.status \in TransientStatuses
      /\ result = _handle_response(last_response)
      /\ result.kind = "raise"
      /\ StartsWith(result.msg, HttpPrefix(last_response.status))
      /\ (last_response.body.json =>
            result.msg = HttpPrefix(last_response.status) \o <<" ">>
                           \o error_code(last_response.body) \o <<" ", "-", " ">>
                           \o error_message(last_response.body))
      /\ ~IsTransportUnavailable(result)
      /\ ~IsRetriesExhausted(result)
      /\ Len(sleeps) = config.max_retries - 1
      /\ calls = config.max_retries

\* C10 witness: a timeout, then 503 twice, with max_retries = 3: the error of
\* the last 503 envelope is raised.
C10_Witness ==
  /\ config.max_retries = 3
  /\ history = <<"timeout", "transient", "transient">>
  /\ pc = "done"
  /\ last_response.status = 503
  /\ last_response.body.hasCode
  /\ result.kind = "raise"

\* a request passed the gate, made every one of its max_retries attempts, and
\* each attempt ended in a failure of a transient class
AllAttemptsTransient ==
  /\ pc = "done"
  /\ op \in Operations
  /\ Len(history) = config.max_retries
  /\ \A i \in 1..Len(history) : history[i] \in {"timeout", "connection", "transient"}
  /\ _check_authentication(cookie_data) = AuthOk

\* C11 as stated: a request that uses up all its max_retries attempts on
\* transient failures fails with RetriesExhausted ("Max retries exceeded").
C11_ExhaustionIsRetriesExhausted ==
  AllAttemptsTransient => IsRetriesExhausted(result)

\* C11 amended: such a request fails with RetriesExhausted, after no network
\* call, when max_retries = 0; when max_retries >= 1 it fails with the error of
\* its final attempt: TransportUnavailable for a timeout or a connection
\* failure, the HttpError of the response for a transient status.
C11_ExhaustionRaisesLastError ==
  AllAttemptsTransient =>
    IF config.max_retries = 0
    THEN IsRetriesExhausted(result) /\ calls = 0
    ELSE /\ ~IsRetriesExhausted(result)
         /\ calls = config.max_retries
         /\ LET last == history[Len(history)] IN
            /\ last = "timeout" => result.msg = MsgTimeout
            /\ last = "connection" => result.msg = MsgConnection
            /\ last = "transient" =>
                 /\ result.kind = "raise"
                 /\ StartsWith(result.msg, HttpPrefix(last_response.status))

\* C11 witness: with max_retries = 0 the request of an authenticated client
\* has failed with "Max retries exceeded".
C11_Witness ==
  /\ AllAttemptsTransient
  /\ config.max_retries = 0
  /\ IsRetriesExhausted(result)

(***************************************************************************)
(* The error kinds as the repository's tests recognise them: by a          *)
(* case-sensitive search of the message (pytest.raises(..., match=...)).    *)
(***************************************************************************)
Matches(r, pattern) ==
  /\ r.kind = "raise"
  /\ r.type = "TwitterClientError"
  /\ Contains(r.msg, pattern)

MatchesNotFound(r) == Matches(r, Sp(<<"not", "found">>))

MatchesAuthentication(r) == Matches(r, <<"Authentication">>)

MatchesRateLimit(r) == Matches(r, Sp(<<"Rate", "limit">>))

\* the first attempt of a request was answered by an error envelope with the
\* given HTTP status, and the request is over
FirstAnswerIs(status) ==
  /\ pc = "done"
  /\ Len(history) = 1
  /\ last_response.status = status
  /\ last_response.body.json
  /\ last_response.body.hasCode

\* C12 as stated: an error envelope at an HTTP error status is classified by
\* its code (404 NOT_FOUND: "not found", 401 with an authentication code:
\* "Authentication", 429 RATE_LIMITED: "Rate limit"), and such a response is
\* never followed by a further attempt.
C12_KindFollowsCodeAtErrorStatus ==
  /\ (FirstAnswerIs(404) /\ last_response.body.code = <<"NOT_FOUND">>) =>
       MatchesNotFound(result) /\ calls = 1
  /\ (FirstAnswerIs(401) /\ Contains(last_response.body.code, <<"AUTHENTICATION">>)) =>
       MatchesAuthentication(result) /\ calls = 1
  /\ (FirstAnswerIs(429) /\ last_response.body.code = <<"RATE_LIMITED">>) =>
       MatchesRateLimit(result) /\ calls = 1
  /\ \A i \in 1..Len(history) :
       history[i] = "http_error" => i = Len(history) /\ pc = "done"

\* a request is over and `last_response` is the response that ended it
EndedByResponse == pc = "done" /\ last_response # NoResponse

\* C13: a response with a status of 400 or more makes _handle_response raise
\* "HTTP <status>: <code> - <message>" when the body is JSON, with UNKNOWN and
\* "Unknown error" for an absent code or message, and "HTTP <status>:
\* <reason>" when it is not; it never returns a payload, whatever the body says.
C13_ErrorStatusRaisesHttpError ==
  (EndedByResponse /\ last_response.status >= 400) =>
    LET body == last_response.body
        code == IF body.hasCode THEN body.code ELSE <<"UNKNOWN">>
        message == IF body.hasMessage THEN body.message ELSE <<"Unknown", " ", "error">>
        head == <<"HTTP", " ", ToString(last_response.status), ":", " ">>
    IN /\ result.kind = "raise"
       /\ result.type = "TwitterClientError"
       /\ result.payload = NoFields
       /\ result.msg = (IF body.json THEN head \o code \o <<" ", "-", " ">> \o message
                        ELSE head \o body.reason)

\* C13 witness: HTTP 404 with a JSON body without error code and message has
\* ended a request with "HTTP 404: UNKNOWN - Unknown error".
C13_Witness ==
  /\ EndedByResponse
  /\ last_response.status = 404
  /\ last_response.body.json
  /\ ~last_response.body.hasCode
  /\ result.msg = <<"HTTP", " ", "404", ":", " ", "UNKNOWN", " ", "-", " ", "Unknown", " ", "error">>

\* C14: a response with a status below 400 and a JSON body with success false
\* raises the error chosen by error.code: "Authentication error:" for a code
\* that contains AUTHENTICATION, else "Resource not found:" for the code
\* NOT_FOUND, else "Rate limit exceeded:" for the code RATE_LIMITED, else
\* "API error (<code>):", each followed by the message; with success true the
\* parsed body is returned as it is.
C14_KindByErrorCode ==
  (EndedByResponse /\ last_response.status < 400 /\ last_response.body.json) =>
    LET body == last_response.body
        message == IF body.hasMessage THEN body.message ELSE <<"Unknown", " ", "error">>
        authentication == body.hasCode /\ \E i \in 1..Len(body.code) : body.code[i] = "AUTHENTICATION"
    IN /\ body.success = "true" => result.kind = "return" /\ result.payload = body
       /\ body.success = "false" =>
            /\ result.kind = "raise"
            /\ result.type = "TwitterClientError"
            /\ result.msg =
                 (IF authentication
                    THEN <<"Authentication", " ", "error:", " ">> \o message
                  ELSE IF body.hasCode /\ body.code = <<"NOT_FOUND">>
                    THEN <<"Resource", " ", "not", " ", "found", ":", " ">> \o message
                  ELSE IF body.hasCode /\ body.code = <<"RATE_LIMITED">>
                    THEN <<"Rate", " ", "limit", " ", "exceeded:", " ">> \o message
                  ELSE <<"API", " ", "error", " ", "(">>
                         \o (IF body.hasCode THEN body.code ELSE <<"UNKNOWN">>)
                         \o <<")", ":", " ">> \o message)

\* C14 witness: HTTP 200 with success false and the code TWEET_NOT_FOUND, which
\* contains NOT_FOUND without being equal to it, has raised an ApiError.
C14_Witness ==
  /\ EndedByResponse
  /\ last_response.status = 200
  /\ last_response.body.success = "false"
  /\ last_response.body.code = <<"TWEET_", "NOT_FOUND">>
  /\ StartsWith(result.msg, Sp(<<"API", "error">>))

\* C15 as stated: a response with a status below 400 and a body that is not
\* JSON ends the request with "Invalid response format": no attempt follows
\* it and the request never returns a payload.
C15_MalformedFailsRequest ==
  \A i \in 1..Len(history) :
    history[i] = "ok_malformed" =>
      /\ i = Len(history)
      /\ pc = "done"
      /\ result.kind = "raise"
      /\ StartsWith(result.msg, Sp(<<"Invalid", "response", "format:">>))

\* C16 as stated: get_timeline() on a client on which load_cookies was never
\* called raises a TwitterClientError whose message matches "not authenticated".
C16_UnloadedSaysNotAuthenticated ==
  (pc = "done" /\ op = "get_timeline" /\ cookie_data = NoBundle) =>
    Matches(result, Sp(<<"not", "authenticated">>))

\* close() has just run on a client that had been closed before
ClosedAgain == pc = "done" /\ op = "close" /\ closes >= 2

C18_NoUseAfterClose ==
  (session = "closed" /\ pc # "idle") =>
    /\ op \in Operations =>
         /\ pc = "done"
         /\ result.kind = "raise"
         /\ calls = 0
         /\ history = <<>>
         /\ via = "none"
         /\ (CompleteEssentials(cookie_data) /\ HasCookieHeader(cookie_data)) =>
              IF config.max_retries >= 1
              THEN result.type = "AttributeError"
              ELSE IsRetriesExhausted(result)
    /\ op = "session" => pc = "done" /\ result.kind = "raise" /\ result.type = "AttributeError"

\* C18 witness: after the with statement was left, get_tweet on the
\* authenticated client has raised AttributeError.
C18_Witness ==
  /\ scope.state = "exited"
  /\ session = "closed"
  /\ pc = "done"
  /\ op = "get_tweet"
  /\ is_authenticated(cookie_data)
  /\ result.type = "AttributeError"
  /\ calls = 0

\* C19: once the with statement is left, the client has no session, however
\* the body ended; and leaving it by an exception gives the caller that
\* exception, leaving it normally gives no exception.
C19_ExitClosesAndPropagates ==
  scope.state = "exited" =>
    /\ session = "closed"
    /\ closes >= 1
    /\ (pc = "done" /\ op = "__exit__") =>
         IF scope.exc = "none"
         THEN result.kind = "return"
         ELSE result.kind = "raise" /\ result.type = scope.exc

\* C19 witness: the body raised KeyError; the session is closed and the caller
\* has the KeyError.
C19_Witness ==
  /\ scope = [state |-> "exited", exc |-> "KeyError"]
  /\ pc = "done"
  /\ op = "__exit__"
  /\ session = "closed"
  /\ result.kind = "raise"
  /\ result.type = "KeyError"

\* C20: until close() runs, the client holds the session made at construction,
\* whatever bundles were loaded and however requests ended; the session is
\* never another object; and every network call goes through that session.
C20_OneSessionUntilClose ==
  /\ session \in {"open", "closed"}
  /\ closes = 0 <=> session = "open"
  /\ pc = "waiting" => session = "open"
  /\ calls > 0 <=> via = "open"
  /\ calls = 0 <=> via = "none"

\* C20 witness: the third network call of a request, after two retried
\* failures, is with the bridge and went through the session of construction.
C20_Witness ==
  /\ pc = "waiting"
  /\ calls = 3
  /\ Len(history) = 2
  /\ via = "open"
  /\ session = "open"
  /\ ~cookie_data.isNone

\* the NotImplemented kind of the specification
IsNotImplemented(r) ==
  /\ r.kind = "raise"
  /\ r.type = "TwitterClientError"
  /\ Contains(r.msg, Sp(<<"not", "yet", "implemented">>))

\* C21: search_tweets, get_profile, get_trends and get_mentions, called in any
\* client state, fail with the 'not yet implemented' error, make no network
\* call and leave the bundle, the configuration and the session as they were.
C21_PlaceholdersFailUnconditionally ==
  [][(pc = "idle" /\ op' \in Placeholders) =>
       /\ pc' = "done"
       /\ IsNotImplemented(result')
       /\ answer' = AnswerAs(result')
       /\ calls' = 0
       /\ history' = <<>>
       /\ request' = NoRequest
       /\ via' = "none"
       /\ UNCHANGED <<cookie_data, config, session, closes, scope, supplied, loaded>>]_vars

\* C21 witness: get_profile has failed with the 'not yet implemented' error on
\* a client that is authenticated and whose session is closed.
C21_Witness ==
  /\ pc = "done"
  /\ op = "get_profile"
  /\ IsNotImplemented(result)
  /\ is_authenticated(cookie_data)
  /\ HasCookieHeader(cookie_data)
  /\ session = "closed"
  /\ calls = 0

\* the EmptyResult kind of the specification
IsEmptyResult(r) ==
  /\ r.kind = "raise"
  /\ r.type = "TwitterClientError"
  /\ r.msg = MsgNoTweets

\* the timeline request of the finished operation succeeded
RequestSucceeded == pc = "done" /\ result.kind = "return"

AttemptIssued == calls > 0 /\ pc \in {"waiting", "done"}

\* the path of the operation's endpoint
PathOf(o, a) ==
  IF o = "get_tweet" THEN <<"/api/tweet/", a.tweet_id>> ELSE <<"/api/timeline">>

\* C23: every attempt of a request, the first and each retry, goes to the
\* configured base_url followed by the path and carries the loaded
\* cookieHeader as its Cookie header; a POST attempt has a body whose
\* 'cookies' entry is the loaded essentials mapping, also when the caller's
\* data had a 'cookies' entry of its own, and a GET attempt has no body.
C23_RequestConstruction ==
  AttemptIssued =>
    /\ request.url = <<config.base_url>> \o PathOf(op, args)
    /\ request.Cookie = (IF loaded.hasHeader THEN loaded.cookieHeader ELSE <<>>)
    /\ request.method \in {"POST", "GET"}
    /\ request.method = "GET" <=> op = "get_tweet"
    /\ request.method = "POST" =>
         /\ request.hasJson
         /\ request.cookies = loaded.essentials
         /\ op = DirectCall => ~request.hasCount /\ request.includeReplies = "absent"
    /\ request.method = "GET" =>
         /\ ~request.hasJson
         /\ request.cookies = EmptyEssentials
         /\ ~request.hasCount

\* C23 witness: the second attempt of a direct POST whose data had a
\* 'cookies' entry of the caller's goes to the caller's base_url with the
\* loaded essentials in its body.
C23_Witness ==
  /\ pc = "waiting"
  /\ calls = 2
  /\ op = DirectCall
  /\ args.data = "WithCookies"
  /\ request.method = "POST"
  /\ request.url = <<"http://bridge:8080", "/api/timeline">>
  /\ request.cookies = FullEssentials
  /\ request.cookies # CallerCookies
  /\ request.Cookie = PartialHeader

\* the operations that return a list of Tweets
ListOperations == {"get_timeline", "get_tweets_and_replies"}

HasEveryPair(header, essentials) ==
  /\ \A i \in 1..Len(required_cookies) :
       Contains(header, PairText(required_cookies[i], essentials[required_cookies[i]]))
  /\ Contains(header, <<"; ">>)

\* C25 as stated: for every loaded bundle for which is_authenticated() holds,
\* get_cookie_header() contains the pair name=value of each of the five
\* essential cookies, the pairs separated by "; ".
C25_HeaderHasEveryEssentialPair ==
  is_authenticated(cookie_data) =>
    HasEveryPair(get_cookie_header(cookie_data), get_essential_cookies(cookie_data))

\* C25 amended: get_cookie_header() is the cookieHeader string of the loaded
\* bundle as it was loaded, empty when the bundle has none, and it is what
\* every attempt carries; it holds every essential pair when the loaded
\* cookieHeader was made of the essentials' pairs joined by "; ".
C25_HeaderIsLoadedVerbatim ==
  /\ get_cookie_header(cookie_data) = (IF loaded.hasHeader THEN loaded.cookieHeader ELSE <<>>)
  /\ AttemptIssued => request.Cookie = loaded.cookieHeader
  /\ (is_authenticated(cookie_data)
        /\ loaded.cookieHeader = JoinPairs(required_cookies, loaded.essentials)) =>
       HasEveryPair(get_cookie_header(cookie_data), get_essential_cookies(cookie_data))

\* C25 witness: the loaded bundle is authenticated and its cookieHeader has
\* two of the five pairs; get_cookie_header() returns those two and an
\* attempt carries them.
C25_Witness ==
  /\ is_authenticated(cookie_data)
  /\ loaded.cookieHeader = PartialHeader
  /\ get_cookie_header(cookie_data) = PartialHeader
  /\ ~HasEveryPair(get_cookie_header(cookie_data), get_essential_cookies(cookie_data))
  /\ pc = "waiting"
  /\ request.Cookie = PartialHeader

\* what the three getters return when the argument of the latest load_cookies
\* is `b` and nothing else is known
EssentialsOfBundle(b) == IF ~b.isNone /\ b.hasEssentials THEN b.essentials ELSE EmptyEssentials

HeaderOfBundle(b) == IF ~b.isNone /\ b.hasHeader THEN b.cookieHeader ELSE <<>>

AuthenticatedByBundle(b) ==
  /\ ~b.isNone
  /\ b.hasEssentials
  /\ \A k \in RequiredSet : b.essentials[k] = "v"

\* C26: the bundle held is the argument of the latest load_cookies and nothing
\* more: get_essential_cookies, get_cookie_header and is_authenticated are
\* what that argument alone gives, whatever was loaded before, and with
\* nothing loaded they are the empty mapping, the empty string and false.
C26_LoadReplacesWholesale ==
  /\ cookie_data = loaded
  /\ get_essential_cookies(cookie_data) = EssentialsOfBundle(loaded)
  /\ get_cookie_header(cookie_data) = HeaderOfBundle(loaded)
  /\ is_authenticated(cookie_data) = AuthenticatedByBundle(loaded)
  /\ loaded.isNone =>
       /\ get_essential_cookies(cookie_data) = EmptyEssentials
       /\ get_cookie_header(cookie_data) = <<>>
       /\ ~is_authenticated(cookie_data)

\* C26 witness: on a client that held the complete bundle, a bundle with only
\* the 'cookies' key was loaded; no essentials and no header are left, and a
\* request fails at the gate.
C26_Witness ==
  /\ loaded.hasCookies
  /\ ~loaded.hasHeader
  /\ ~loaded.hasEssentials
  /\ get_essential_cookies(cookie_data) = EmptyEssentials
  /\ get_cookie_header(cookie_data) = <<>>
  /\ ~is_authenticated(cookie_data)
  /\ FailedAtGate

\* the client has been constructed
Constructed == pc # "new"

\* C27 as stated: after construction each of the four keys that the caller
\* supplied has the caller's value and each absent one has its default,
\* whichever subset of the keys was supplied.
C27_SuppliedValuesKept ==
  Constructed =>
    /\ config.keys = ApiKeys
    /\ config.base_url =
         (IF "base_url" \in supplied.keys THEN supplied.base_url ELSE DefaultBaseUrl)
    /\ config.timeout_seconds =
         (IF "timeout_seconds" \in supplied.keys THEN supplied.timeout_seconds
          ELSE DefaultTimeoutSeconds)
    /\ config.max_retries =
         (IF "max_retries" \in supplied.keys THEN supplied.max_retries ELSE DefaultMaxRetries)
    /\ config.backoff_base =
         (IF "backoff_base" \in supplied.keys THEN supplied.backoff_base
          ELSE DefaultBackoffBase)

\* C28 as stated: constructing the client and running its operations leaves
\* the caller's api mapping as the caller passed it.
C28_ConfigLeftAsPassed == config = supplied

\* C28 amended: construction writes into the caller's api mapping, which
\* afterwards holds all four keys: a mapping that had them all is left as
\* passed, one that had base_url keeps its entries and gains the absent ones;
\* after construction no operation writes to the mapping.
C28_ConfigWrittenOnlyAtConstruction ==
  /\ [](Constructed =>
          /\ config.keys = ApiKeys
          /\ supplied.keys = ApiKeys => config = supplied
          /\ "base_url" \in supplied.keys =>
               /\ config.base_url = supplied.base_url
               /\ "timeout_seconds" \in supplied.keys =>
                    config.timeout_seconds = supplied.timeout_seconds
               /\ "max_retries" \in supplied.keys => config.max_retries = supplied.max_retries
               /\ "backoff_base" \in supplied.keys =>
                    config.backoff_base = supplied.backoff_base)
  /\ [][Constructed => config' = config /\ supplied' = supplied]_vars

\* C28 witness: the caller passed a mapping with base_url alone; after
\* construction and a finished request the mapping holds the three defaults
\* too.
C28_Witness ==
  /\ supplied.keys = {"base_url"}
  /\ config.keys = ApiKeys
  /\ config # supplied
  /\ config.max_retries = DefaultMaxRetries
  /\ pc = "done"
  /\ op = "get_timeline"
  /\ calls > 0

\* C29 as stated: every attempt, POST or GET, first or retry, is issued with
\* a timeout equal to the configured timeout_seconds, and that value is
\* greater than 0.
C29_TimeoutIsConfiguredAndPositive ==
  AttemptIssued =>
    /\ request.timeout = config.timeout_seconds
    /\ request.timeout > 0

\* the outcome a finished request operation gives its caller is an error, or
\* a value made of a success envelope that the bridge sent
ErrorOrRealValue ==
  \/ answer.kind = "raise"
  \/ /\ answer.kind = "return"
     /\ result.kind = "return"
     /\ last_response.status < 400
     /\ last_response.body.json
     /\ last_response.body.success = "true"
     /\ result.payload = last_response.body

\* C30: a request operation makes at most max_retries attempts, every attempt
\* that is with the bridge is followed by the end of the operation, and the
\* operation ends by raising an error or by returning what a success
\* envelope of the bridge held, never a value put in place of an error.
C30_RequestsTerminate ==
  /\ [](calls <= config.max_retries)
  /\ []((pc = "done" /\ op \in Operations) => ErrorOrRealValue)
  /\ (pc = "waiting") ~> (pc = "done")

\* C30 witness: an operation has ended with an error after max_retries = 3
\* attempts that the bridge let time out or answered with a transient status.
C30_Witness ==
  /\ pc = "done"
  /\ op \in Operations
  /\ config.max_retries = 3
  /\ calls = 3
  /\ history = <<"timeout", "transient", "timeout">>
  /\ answer.kind = "raise"

(***************************************************************************)
(* The data models and the normalizers (src/models.py; _normalize_tweet,   *)
(* _normalize_user and _normalize_engagement of the client).  A mapping is *)
(* a record of entries, one per key: the key is present with a value, or   *)
(* absent.  A text is a sequence of fragments, a date string and a         *)
(* datetime are named by a string.                                         *)
(***************************************************************************)
\* the key is in the mapping, with the value `v`
Present(v) == [has |-> TRUE, v |-> v]

\* the key is not in the mapping (`filler` stands where the value would)
Absent(filler) == [has |-> FALSE, v |-> filler]

\* dict.get(key, default)
Get(entry, default) == IF entry.has THEN entry.v ELSE default

\* a function returns `v`
Returned(v) == [kind |-> "return", type |-> "", value |-> v]

\* a function raises an exception of the class `type`
Raised(type, filler) == [kind |-> "raise", type |-> type, value |-> filler]

\* Python's None
None == "None"

\* date strings of the bridge: ISO 8601, words, a run of digits (a
\* timestamp in milliseconds), the empty string, and a number where the
\* string should be
GoodDate == "2024-01-15T10:30:00Z"
DigitRun == "1705314600000"
AnInteger == "int(20240115)"
DateInputs == {GoodDate, "garbage", DigitRun, "", AnInteger}

\* the datetime that GoodDate stands for
GoodDatetime == "datetime(2024, 1, 15, 10, 30, tzinfo=tzutc())"

\* the values datetime.now() may return
Clock == {"datetime(2026, 1, 1, 12, 0)", "datetime(2026, 1, 1, 12, 1)"}

\* dateutil's date_parser.parse: a datetime, ParserError (a ValueError) for
\* a string that holds no date, TypeError for what is not a string, and
\* OverflowError for a run of digits too large for a date's field
parse(timestr) ==
  CASE timestr = GoodDate -> Returned(GoodDatetime)
    [] timestr = DigitRun -> Raised("OverflowError", None)
    [] timestr \in {AnInteger, None} -> Raised("TypeError", None)
    [] OTHER -> Raised("ValueError", None)

\* datetime.isoformat()
isoformat(d) ==
  CASE d = GoodDatetime -> "2024-01-15T10:30:00+00:00"
    [] d = "datetime(2026, 1, 1, 12, 0)" -> "2026-01-01T12:00:00"
    [] d = "datetime(2026, 1, 1, 12, 1)" -> "2026-01-01T12:01:00"

\* isinstance(value, str) of a date entry
IsStr(value) == value # AnInteger

\* the truth value of a date entry: the empty string is false
DateTruthy(value) == value # ""

\* len() of one fragment of a text
FragmentLength(f) ==
  CASE f \in {"?", "#", "@", " "} -> 1
    [] f \in {"Why", "why", "now", "tag", "bob", "see"} -> 3
    [] f \in {"HTTP", "http"} -> 4
    [] f = "hello" -> 5
    [] f = "://x.co" -> 7

RECURSIVE len(_)
\* len(text)
len(text) == IF text = <<>> THEN 0 ELSE FragmentLength(Head(text)) + len(Tail(text))

\* len(text.split()): the runs of fragments between spaces
word_count(text) ==
  Cardinality({i \in 1..Len(text) : text[i] # " " /\ (i = 1 \/ text[i - 1] = " ")})

\* str.lower() of one fragment
LowerFragment(f) ==
  CASE f = "HTTP" -> "http"
    [] f = "Why" -> "why"
    [] OTHER -> f

\* text.lower()
lower(text) == [i \in 1..Len(text) |-> LowerFragment(text[i])]

\* the texts of raw tweets
Texts ==
  { <<"hello">>,
    <<"Why", " ", "now", "?">>,
    <<"#", "tag", " ", "@", "bob">>,
    <<"see", " ", "HTTP", "://x.co">> }

\* EngagementMetrics without __post_init__
EngagementMetrics_Unvalidated(likes, retweets, replies, views) ==
  Returned([likes |-> likes, retweets |-> retweets, replies |-> replies, views |-> views])

\* EngagementMetrics(likes, retweets, replies, views) with its __post_init__
EngagementMetrics(likes, retweets, replies, views) ==
  IF \E value \in {likes, retweets, replies, views} : value < 0
  THEN Raised("ValueError", [likes |-> 0, retweets |-> 0, replies |-> 0, views |-> 0])
  ELSE Returned([likes |-> likes, retweets |-> retweets, replies |-> replies, views |-> views])

\* the empty mapping in the place of an engagement mapping
EmptyEngagement ==
  [likes |-> Absent(0), retweets |-> Absent(0), replies |-> Absent(0), views |-> Absent(0)]

\* the engagement mappings of raw tweets
EngagementData ==
  { EmptyEngagement,
    [likes |-> Present(5), retweets |-> Present(1), replies |-> Present(2),
     views |-> Present(100)],
    [EmptyEngagement EXCEPT !.likes = Present(7)],
    [EmptyEngagement EXCEPT !.views = Present(-3)],
    [likes |-> Present(-1), retweets |-> Present(0), replies |-> Present(0),
     views |-> Present(0)] }

\* a normalizer that reads the counters with engagement_data[key]
_normalize_engagement_Subscript(engagement_data) ==
  IF \E k \in {"likes", "retweets", "replies", "views"} : ~engagement_data[k].has
  THEN Raised("KeyError", [likes |-> 0, retweets |-> 0, replies |-> 0, views |-> 0])
  ELSE EngagementMetrics(engagement_data.likes.v, engagement_data.retweets.v,
                         engagement_data.replies.v, engagement_data.views.v)

\* _normalize_engagement, and the same construction in Tweet.from_dict
_normalize_engagement(engagement_data) ==
  EngagementMetrics(Get(engagement_data.likes, 0), Get(engagement_data.retweets, 0),
                    Get(engagement_data.replies, 0), Get(engagement_data.views, 0))

\* the empty mapping in the place of a user mapping
EmptyUser == [username |-> Absent(""), joinDate |-> Absent("")]

\* the user mappings of raw tweets
Users ==
  [username : {Absent(""), Present("alice")},
   joinDate : {Absent("")} \cup {Present(d) : d \in {GoodDate, "garbage", DigitRun}}]

\* Profile(username=..., join_date=...)
Profile(username, join_date) == [username |-> username, join_date |-> join_date]

\* _normalize_user: join_date stays None unless 'joinDate' is there and
\* parses; ValueError and TypeError of the parser are passed over
_normalize_user(user_data) ==
  LET parsed == parse(user_data.joinDate.v) IN
  IF user_data.joinDate.has /\ parsed.kind = "raise"
       /\ parsed.type \notin {"ValueError", "TypeError"}
  THEN Raised(parsed.type, Profile("", None))
  ELSE Returned(Profile(Get(user_data.username, ""),
                        IF user_data.joinDate.has /\ parsed.kind = "return"
                        THEN parsed.value ELSE None))

\* Profile.from_dict: the date is parsed only if it is a non-empty string
Profile_from_dict(data) ==
  LET date_str == Get(data.joinDate, None)
      parsed == parse(date_str) IN
  IF data.joinDate.has /\ DateTruthy(date_str) /\ IsStr(date_str) /\ parsed.kind = "raise"
       /\ parsed.type \notin {"ValueError", "TypeError"}
  THEN Raised(parsed.type, Profile("", None))
  ELSE Returned(Profile(Get(data.username, ""),
                        IF data.joinDate.has /\ DateTruthy(date_str) /\ IsStr(date_str)
                             /\ parsed.kind = "return"
                        THEN parsed.value ELSE None))

\* Profile.to_dict
Profile_to_dict(profile) ==
  [username |-> profile.username,
   joinDate |-> IF profile.join_date # None THEN isoformat(profile.join_date) ELSE None]

\* ContentFeatures(): the defaults of the dataclass
DefaultFeatures ==
  [length |-> 0, word_count |-> 0, has_question |-> FALSE, has_media |-> FALSE,
   has_hashtags |-> FALSE, has_mentions |-> FALSE, has_links |-> FALSE]

\* the 'features' mapping an upstream analysis sends with a raw tweet
UpstreamFeatures ==
  [length |-> 280, word_count |-> 50, has_question |-> TRUE, has_media |-> TRUE,
   has_hashtags |-> TRUE, has_mentions |-> TRUE, has_links |-> TRUE]

\* features taken from the raw tweet's 'features' where it has them
ContentFeatures_Upstream(tweet_data) ==
  IF tweet_data.features.has THEN tweet_data.features.v
  ELSE LET text == Get(tweet_data.text, <<>>) IN
       [DefaultFeatures EXCEPT !.length = len(text), !.word_count = word_count(text)]

\* the ContentFeatures that _normalize_tweet builds
ContentFeatures(tweet_data) ==
  LET text == Get(tweet_data.text, <<>>) IN
  [length |-> len(text),
   word_count |-> word_count(text),
   has_question |-> Contains(text, <<"?">>),
   has_media |-> Get(tweet_data.media, <<>>) # <<>>,
   has_hashtags |-> Contains(text, <<"#">>),
   has_mentions |-> Contains(text, <<"@">>),
   has_links |-> Contains(lower(text), <<"http">>)]

\* ContentFeatures.from_dict(data.get("features", {}))
ContentFeatures_from_dict(data) == Get(data.features, DefaultFeatures)

\* the user mappings and the engagement mappings inside raw tweets
TweetUsers == {u \in Users : u.joinDate.has => u.username.has}

TweetEngagement == {e \in EngagementData : e.likes.has <=> e.views.has}

\* the raw tweets: every key present or absent
TweetData ==
  [id : {Absent(""), Present("t1")},
   text : {Absent(<<>>)} \cup {Present(t) : t \in Texts},
   user : {Absent(EmptyUser)} \cup {Present(u) : u \in TweetUsers},
   createdAt : {Absent("")} \cup {Present(d) : d \in DateInputs},
   engagement : {Absent(EmptyEngagement)} \cup {Present(e) : e \in TweetEngagement},
   media : {Absent(<<>>), Present(<<>>), Present(<<"photo">>)},
   features : {Absent(DefaultFeatures), Present(UpstreamFeatures)},
   isRetweet : {Absent(FALSE), Present(TRUE)}]

\* the mapping with no key
EmptyTweetData ==
  [id |-> Absent(""), text |-> Absent(<<>>), user |-> Absent(EmptyUser),
   createdAt |-> Absent(""), engagement |-> Absent(EmptyEngagement),
   media |-> Absent(<<>>), features |-> Absent(DefaultFeatures),
   isRetweet |-> Absent(FALSE)]

\* Tweet(id=..., text=..., user=..., ...)
Tweet(id, text, user, created_at, engagement, features, media, is_retweet) ==
  [id |-> id, text |-> text, user |-> user, created_at |-> created_at,
   engagement |-> engagement, features |-> features, media |-> media,
   is_retweet |-> is_retweet]

\* the value in the place of a Tweet when the function raises
NoTweet ==
  Tweet("", <<>>, Profile("", None), None,
        [likes |-> 0, retweets |-> 0, replies |-> 0, views |-> 0], DefaultFeatures,
        <<>>, FALSE)

\* the date of _normalize_tweet: the parsed createdAt, the time `now` where
\* there is none or the parser raises ValueError or TypeError
CreatedAt(tweet_data, now) ==
  LET created_at_str == Get(tweet_data.createdAt, None)
      parsed == parse(created_at_str) IN
  IF ~tweet_data.createdAt.has \/ ~DateTruthy(created_at_str) THEN Returned(now)
  ELSE IF parsed.kind = "return" THEN parsed
  ELSE IF parsed.type \in {"ValueError", "TypeError"} THEN Returned(now)
  ELSE parsed

\* _normalize_tweet(tweet_data) in full, at the time `now`: the user, the
\* engagement and the date in this order, each of which may raise, then the
\* features and the Tweet
NormalizeTweet(tweet_data, now) ==
  LET user == _normalize_user(Get(tweet_data.user, EmptyUser))
      engagement == _normalize_engagement(Get(tweet_data.engagement, EmptyEngagement))
      created_at == CreatedAt(tweet_data, now) IN
  IF user.kind = "raise" THEN Raised(user.type, NoTweet)
  ELSE IF engagement.kind = "raise" THEN Raised(engagement.type, NoTweet)
  ELSE IF created_at.kind = "raise" THEN Raised(created_at.type, NoTweet)
  ELSE Returned(Tweet(Get(tweet_data.id, ""), Get(tweet_data.text, <<>>), user.value,
                      created_at.value, engagement.value, ContentFeatures(tweet_data),
                      Get(tweet_data.media, <<>>), Get(tweet_data.isRetweet, FALSE)))

\* Tweet.from_dict(data): createdAt has to be a string that parses
from_dict(data) ==
  LET created_at_str == Get(data.createdAt, None)
      parsed == parse(created_at_str)
      user == Profile_from_dict(Get(data.user, EmptyUser))
      engagement == _normalize_engagement(Get(data.engagement, EmptyEngagement)) IN
  IF ~data.createdAt.has \/ ~IsStr(created_at_str) THEN Raised("ValueError", NoTweet)
  ELSE IF parsed.kind = "raise"
  THEN Raised(IF parsed.type \in {"ValueError", "TypeError"} THEN "ValueError"
              ELSE parsed.type, NoTweet)
  ELSE IF user.kind = "raise" THEN Raised(user.type, NoTweet)
  ELSE IF engagement.kind = "raise" THEN Raised(engagement.type, NoTweet)
  ELSE Returned(Tweet(Get(data.id, ""), Get(data.text, <<>>), user.value, parsed.value,
                      engagement.value, ContentFeatures_from_dict(data),
                      Get(data.media, <<>>), Get(data.isRetweet, FALSE)))

\* a to_dict that puts the text in lower case
to_dict_Lowered(tweet) ==
  [id |-> tweet.id,
   text |-> lower(tweet.text),
   user |-> Profile_to_dict(tweet.user),
   createdAt |-> isoformat(tweet.created_at),
   engagement |-> tweet.engagement,
   features |-> tweet.features,
   media |-> tweet.media,
   isRetweet |-> tweet.is_retweet]

\* Tweet.to_dict()
to_dict(tweet) ==
  [id |-> tweet.id,
   text |-> tweet.text,
   user |-> Profile_to_dict(tweet.user),
   createdAt |-> isoformat(tweet.created_at),
   engagement |-> tweet.engagement,
   features |-> tweet.features,
   media |-> tweet.media,
   isRetweet |-> tweet.is_retweet]

\* the function `fn` is called with `input` and gives its caller `output`;
\* none of them touches the client
Apply(fn, input, output) ==
  /\ pc = "idle"
  /\ pc' = "done"
  /\ op' = fn
  /\ args' = input
  /\ answer' = output
  /\ UNCHANGED <<cookie_data, config, session, attempt, calls, sleeps, history,
                 last_response, result, closes, scope, via, request, supplied, loaded>>

\* client._normalize_tweet(tweet_data) is called when the clock shows `now`
normalize_tweet(tweet_data, now) ==
  Apply("_normalize_tweet", [tweet_data |-> tweet_data, now |-> now],
        NormalizeTweet(tweet_data, now))

\* client._normalize_user(user_data) is called
normalize_user(user_data) ==
  Apply("_normalize_user", [user_data |-> user_data], _normalize_user(user_data))

\* client._normalize_engagement(engagement_data) is called
normalize_engagement(engagement_data) ==
  Apply("_normalize_engagement", [engagement_data |-> engagement_data],
        _normalize_engagement(engagement_data))

\* Tweet.from_dict(data) is called
Tweet_from_dict(data) == Apply("from_dict", [tweet_data |-> data], from_dict(data))

\* the counters EngagementMetrics is constructed with
MetricValues == {-1, 0, 2}

\* EngagementMetrics(likes, retweets, replies, views) is constructed
NewEngagementMetrics(likes, retweets, replies, views) ==
  Apply("EngagementMetrics",
        [likes |-> likes, retweets |-> retweets, replies |-> replies, views |-> views],
        EngagementMetrics(likes, retweets, replies, views))

\* a client with the default configuration
InitModels ==
  /\ Init
  /\ config.max_retries = DefaultMaxRetries
  /\ config.backoff_base = DefaultBackoffBase

NextModels ==
  \/ pc = "idle" /\ \E tweet_data \in TweetData, now \in Clock :
                      normalize_tweet(tweet_data, now)
  \/ pc = "idle" /\ \E user_data \in Users : normalize_user(user_data)
  \/ pc = "idle" /\ \E engagement_data \in EngagementData :
                      normalize_engagement(engagement_data)
  \/ pc = "idle" /\ \E data \in TweetData : Tweet_from_dict(data)
  \/ pc = "idle" /\ \E likes \in MetricValues, retweets \in MetricValues,
                        replies \in MetricValues, views \in MetricValues :
                      NewEngagementMetrics(likes, retweets, replies, views)
  \/ Return

SpecModels == InitModels /\ [][NextModels]_vars

\* a function of the data models has been called and has given its outcome
Applied(fn) == pc = "done" /\ op = fn

(***************************************************************************)
(* Claims about the data models and the normalizers.                       *)
(***************************************************************************)
\* the counters of an engagement mapping that are there are not negative
NonNegative(engagement_data) ==
  \A k \in {"likes", "retweets", "replies", "views"} :
    engagement_data[k].has => engagement_data[k].v >= 0

\* the date entry is there and the parser reads it
Parses(entry) == entry.has /\ parse(entry.v).kind = "return"

\* the date entry is there and the parser leaves with OverflowError
Overflows(entry) == entry.has /\ parse(entry.v).type = "OverflowError"

\* every field of the raw tweet that is there is well formed: no negative
\* counter, no date that the parser leaves with OverflowError
WellFormed(tweet_data) ==
  /\ tweet_data.engagement.has => NonNegative(tweet_data.engagement.v)
  /\ ~Overflows(tweet_data.createdAt)
  /\ tweet_data.user.has => ~Overflows(tweet_data.user.v.joinDate)

ZeroMetrics == [likes |-> 0, retweets |-> 0, replies |-> 0, views |-> 0]

\* C31: _normalize_tweet returns a Tweet for every raw tweet whose present
\* fields are well formed, whichever of its keys are absent: an absent id
\* gives the empty string, an absent text the empty text, an absent user a
\* Profile of defaults, absent engagement counters 0, an absent media list the
\* empty list, an absent flag false; the Tweet has a user, an engagement and
\* features; and when it raises, a field that is present is the cause.
C31_AbsentFieldsAreDefaulted ==
  Applied("_normalize_tweet") =>
    LET d == args.tweet_data
        t == answer.value IN
    /\ (WellFormed(d) <=> answer.kind = "return")
    /\ answer.kind = "return" =>
         /\ (~d.id.has => t.id = "")
         /\ (~d.text.has => t.text = <<>>)
         /\ (~d.user.has => t.user = Profile("", None))
         /\ (d.user.has /\ ~d.user.v.username.has => t.user.username = "")
         /\ (~d.engagement.has => t.engagement = ZeroMetrics)
         /\ (d.engagement.has =>
               \A k \in {"likes", "retweets", "replies", "views"} :
                 ~d.engagement.v[k].has => t.engagement[k] = 0)
         /\ (~d.media.has => t.media = <<>>)
         /\ (~d.isRetweet.has => t.is_retweet = FALSE)
         /\ (~d.createdAt.has => t.created_at = args.now)
         /\ t.user \in [username : {"", "alice"}, join_date : {None, GoodDatetime}]
         /\ t.engagement \in [likes : Nat, retweets : Nat, replies : Nat, views : Nat]
         /\ DOMAIN t.features = DOMAIN DefaultFeatures

\* C31 witness: the raw tweet with no key at all has been normalized to a
\* Tweet.
C31_Witness ==
  /\ Applied("_normalize_tweet")
  /\ args.tweet_data = EmptyTweetData
  /\ answer.kind = "return"
  /\ answer.value.id = ""
  /\ answer.value.engagement = ZeroMetrics

\* the raw user without the joinDate that the parser cannot read
CleanUser(user_data) ==
  IF Parses(user_data.joinDate) THEN user_data
  ELSE [user_data EXCEPT !.joinDate = Absent("")]

\* the raw tweet without the dates that the parser cannot read
CleanTweet(tweet_data) ==
  [tweet_data EXCEPT
     !.createdAt = IF Parses(tweet_data.createdAt) THEN @ ELSE Absent(""),
     !.user = IF tweet_data.user.has THEN Present(CleanUser(tweet_data.user.v)) ELSE @]

\* C32: a date that is missing or that the parser cannot read never fails a
\* normalization.  _normalize_user returns a Profile whose join_date is the
\* parsed joinDate, or unset when joinDate is missing or unparsable;
\* _normalize_tweet gives what it gives for the same raw tweet without the
\* unparsable dates, and with createdAt missing or unparsable the Tweet it
\* returns has the current time as created_at.
C32_BadDateNeverFails ==
  /\ Applied("_normalize_user") =>
       answer = Returned(Profile(Get(args.user_data.username, ""),
                                 IF Parses(args.user_data.joinDate)
                                 THEN parse(args.user_data.joinDate.v).value ELSE None))
  /\ Applied("_normalize_tweet") =>
       /\ answer = NormalizeTweet(CleanTweet(args.tweet_data), args.now)
       /\ (~Parses(args.tweet_data.createdAt)
             /\ (args.tweet_data.engagement.has => NonNegative(args.tweet_data.engagement.v)))
            => answer.kind = "return" /\ answer.value.created_at = args.now

\* the text has the fragment `mark`
HasMark(text, marks) == \E i \in 1..Len(text) : text[i] \in marks

\* C33: the features of the Tweet that _normalize_tweet returns are made of
\* the raw text and the media list alone: has_question, has_hashtags and
\* has_mentions say whether the text has '?', '#', '@', has_links whether it
\* has 'http' in either case, has_media whether the media list has an
\* element; they are the features of the raw tweet that has this text and
\* this media list and nothing else, and the same as without the raw
\* tweet's own 'features'.
C33_FeaturesRecomputed ==
  (Applied("_normalize_tweet") /\ answer.kind = "return") =>
    LET d == args.tweet_data
        text == IF d.text.has THEN d.text.v ELSE <<>>
        f == answer.value.features IN
    /\ f.has_question = HasMark(text, {"?"})
    /\ f.has_hashtags = HasMark(text, {"#"})
    /\ f.has_mentions = HasMark(text, {"@"})
    /\ f.has_links = HasMark(text, {"http", "HTTP"})
    /\ f.has_media = (d.media.has /\ Len(d.media.v) > 0)
    /\ f = ContentFeatures([EmptyTweetData EXCEPT !.text = d.text, !.media = d.media])
    /\ f = NormalizeTweet([d EXCEPT !.features = Absent(DefaultFeatures)],
                          args.now).value.features

\* C33 witness: a raw tweet whose own 'features' say everything is there,
\* whose text has a link in capitals and nothing else, and which has no
\* media, has been normalized: has_links alone is set.
C33_Witness ==
  /\ Applied("_normalize_tweet")
  /\ answer.kind = "return"
  /\ args.tweet_data.features = Present(UpstreamFeatures)
  /\ args.tweet_data.text = Present(<<"see", " ", "HTTP", "://x.co">>)
  /\ ~args.tweet_data.media.has
  /\ answer.value.features.has_links
  /\ ~answer.value.features.has_question
  /\ ~answer.value.features.has_media
  /\ answer.value.features.word_count = 2
  /\ answer.value.features.length = 15

\* the raw tweet has an id, a text and a user with a username
HasKnownFields(tweet_data) ==
  /\ tweet_data.id.has
  /\ tweet_data.text.has
  /\ tweet_data.user.has
  /\ tweet_data.user.v.username.has

\* one of the two ways from a raw tweet to a Tweet has been gone
Normalized == pc = "done" /\ op \in {"_normalize_tweet", "from_dict"}

\* the mapping to_dict makes of the Tweet has the id, the text and the
\* username of the raw tweet
Preserved(tweet_data, tweet) ==
  /\ to_dict(tweet).id = tweet_data.id.v
  /\ to_dict(tweet).text = tweet_data.text.v
  /\ to_dict(tweet).user.username = tweet_data.user.v.username.v

ValidMetrics(m) == m.likes >= 0 /\ m.retweets >= 0 /\ m.replies >= 0 /\ m.views >= 0

\* C35: every EngagementMetrics that comes into existence has likes,
\* retweets, replies and views at 0 or above.  Constructed directly or by
\* _normalize_engagement, counters that are all non-negative give the value
\* with these counters (0 for one that is missing) and a negative one gives
\* ValueError and no value; a Tweet that _normalize_tweet or Tweet.from_dict
\* returns has such metrics, and neither returns one for a raw tweet with a
\* negative counter.
C35_MetricsNeverNegative ==
  /\ Applied("EngagementMetrics") =>
       IF args.likes < 0 \/ args.retweets < 0 \/ args.replies < 0 \/ args.views < 0
       THEN answer.kind = "raise" /\ answer.type = "ValueError"
       ELSE answer = Returned(args)
  /\ Applied("_normalize_engagement") =>
       IF NonNegative(args.engagement_data)
       THEN /\ answer.kind = "return"
            /\ ValidMetrics(answer.value)
            /\ \A k \in {"likes", "retweets", "replies", "views"} :
                 answer.value[k] = (IF args.engagement_data[k].has
                                    THEN args.engagement_data[k].v ELSE 0)
       ELSE answer.kind = "raise" /\ answer.type = "ValueError"
  /\ Normalized =>
       /\ answer.kind = "return" => ValidMetrics(answer.value.engagement)
       /\ (args.tweet_data.engagement.has /\ ~NonNegative(args.tweet_data.engagement.v))
            => answer.kind = "raise"

\* C35 witness: EngagementMetrics was constructed with a negative views
\* counter next to valid ones and raised ValueError.
C35_Witness ==
  /\ Applied("EngagementMetrics")
  /\ args = [likes |-> 2, retweets |-> 0, replies |-> 2, views |-> -1]
  /\ answer.kind = "raise"
  /\ answer.type = "ValueError"

(***************************************************************************)
(* Claims about the end of a request and the envelope without 'success'.   *)
(***************************************************************************)
\* a request operation is over
RequestOver == pc = "done" /\ op \in Operations

\* C36: a request ends with "Max retries exceeded" exactly when it passed
\* the gate with max_retries = 0, and then no network call was made and
\* nothing was slept; with max_retries of 1 or more no request ends with it:
\* a request that fails after an attempt fails with the error of its final
\* attempt, the TransportUnavailable of a timeout or a connection failure
\* or the error _handle_response raised for the final response.
C36_RetriesExhaustedOnlyWithoutAttempts ==
  RequestOver =>
    /\ IsRetriesExhausted(result) <=>
         (config.max_retries = 0 /\ _check_authentication(cookie_data) = AuthOk)
    /\ IsRetriesExhausted(result) => calls = 0 /\ history = <<>> /\ sleeps = <<>>
    /\ config.max_retries >= 1 => ~IsRetriesExhausted(result) /\ answer.msg # MsgMaxRetries
    /\ (result.kind = "raise" /\ history # <<>>) =>
         LET last == history[Len(history)] IN
         /\ last = "timeout" => IsTransportUnavailable(result) /\ result.msg = MsgTimeout
         /\ last = "connection" =>
              IsTransportUnavailable(result) /\ result.msg = MsgConnection
         /\ last \notin {"timeout", "connection"} =>
              /\ result = _handle_response(last_response)
              /\ (last_response.status >= 400 =>
                    StartsWith(result.msg, HttpPrefix(last_response.status)))

\* C36 witness: with max_retries = 2 the bridge was unreachable and then
\* answered 504; the request has ended with the HttpError of the 504, after
\* two network calls.
C36_Witness ==
  /\ RequestOver
  /\ config.max_retries = 2
  /\ history = <<"connection", "transient">>
  /\ calls = 2
  /\ last_response.status = 504
  /\ StartsWith(result.msg, HttpPrefix(504))
  /\ ~IsRetriesExhausted(result)

\* C37: a response with a status below 400 and a JSON body without a
\* 'success' key is a failure: _handle_response raises "API error
\* (UNKNOWN):" when the body has no error code, else the error its code
\* selects, each followed by the message or "Unknown error"; a request
\* returns a payload only for a body whose success is true, and the payload
\* is that body.
C37_MissingSuccessIsFailure ==
  /\ (EndedByResponse /\ last_response.status < 400 /\ last_response.body.json
        /\ last_response.body.success = "absent") =>
       LET body == last_response.body
           message == IF body.hasMessage THEN body.message ELSE <<"Unknown", " ", "error">>
       IN /\ result.kind = "raise"
          /\ result.type = "TwitterClientError"
          /\ result.payload = NoFields
          /\ answer.kind = "raise"
          /\ ~body.hasCode =>
               result.msg = <<"API", " ", "error", " ", "(", "UNKNOWN", ")", ":", " ">> \o message
          /\ body.hasCode =>
               result.msg =
                 (IF \E i \in 1..Len(body.code) : body.code[i] = "AUTHENTICATION"
                    THEN <<"Authentication", " ", "error:", " ">> \o message
                  ELSE IF body.code = <<"NOT_FOUND">>
                    THEN <<"Resource", " ", "not", " ", "found", ":", " ">> \o message
                  ELSE IF body.code = <<"RATE_LIMITED">>
                    THEN <<"Rate", " ", "limit", " ", "exceeded:", " ">> \o message
                  ELSE <<"API", " ", "error", " ", "(">> \o body.code \o <<")", ":", " ">>
                         \o message)
  /\ (RequestOver /\ result.kind = "return") =>
       /\ last_response.status < 400
       /\ last_response.body.success = "true"
       /\ result.payload = last_response.body

\* C37 witness: HTTP 200 with the JSON body {} has ended a request with
\* "API error (UNKNOWN): Unknown error".
C37_Witness ==
  /\ EndedByResponse
  /\ last_response.status = 200
  /\ last_response.body.json
  /\ last_response.body.success = "absent"
  /\ ~last_response.body.hasCode
  /\ ~last_response.body.hasMessage
  /\ result.msg = <<"API", " ", "error", " ", "(", "UNKNOWN", ")", ":", " ", "Unknown", " ", "error">>

(***************************************************************************)
(* Claim about one request after another.                                  *)
(***************************************************************************)
\* the request before this one on the same client failed
AfterFailure == history # <<>> /\ history[1] = FailedEarlier

\* how the attempts of the running request ended
OwnHistory == IF AfterFailure THEN Tail(history) ELSE history

\* C38: the counters of the retry loop belong to one request.  Between
\* operations nothing is left of them; a request made after one that failed
\* finds the bundle that was loaded, the configuration as constructed and
\* the open session, makes one network call per attempt up to max_retries,
\* sleeps backoff_base^0 after its first failed attempt, backoff_base^1
\* after the second and so on, and when each of its attempts fails
\* transiently it ends only after max_retries of them.
C38_RetryStatePerRequest ==
  /\ pc = "idle" =>
       /\ attempt = 0 /\ calls = 0 /\ sleeps = <<>>
       /\ last_response = NoResponse /\ result = NoResult
  /\ AfterFailure =>
       /\ cookie_data = loaded
       /\ config = supplied
       /\ session = "open"
  /\ (AfterFailure /\ pc \in {"waiting", "done"}) =>
       /\ calls <= config.max_retries
       /\ calls = Len(OwnHistory) + (IF pc = "waiting" THEN 1 ELSE 0)
       /\ pc = "waiting" => attempt = Len(OwnHistory) /\ Len(sleeps) = attempt
       /\ \A i \in 1..Len(sleeps) : sleeps[i] = config.backoff_base ^ (i - 1)
       /\ ( /\ pc = "done"
            /\ _check_authentication(cookie_data) = AuthOk
            /\ \A i \in 1..Len(OwnHistory) :
                 OwnHistory[i] \in {"timeout", "connection", "transient"} ) =>
              /\ calls = config.max_retries
              /\ Len(sleeps) = (IF calls = 0 THEN 0 ELSE calls - 1)
              /\ result.kind = "raise"

\* C38 witness: after a request that failed, the next request on the client
\* with max_retries = 3 and backoff_base = 2 has made three attempts of its
\* own, which all failed, and has slept 1 and 2 seconds between them.
C38_Witness ==
  /\ AfterFailure
  /\ pc = "done"
  /\ config.max_retries = 3
  /\ config.backoff_base = 2
  /\ OwnHistory = <<"timeout", "transient", "connection">>
  /\ calls = 3
  /\ sleeps = <<1, 2>>
  /\ result.kind = "raise"

(***************************************************************************)
(* AppConfig.merge (src/config.py).  The sections api, logging and         *)
(* processing of an AppConfig are dict objects; a section is written as    *)
(* the record of its entries.  In the dict that to_dict returns and in the *)
(* AppConfig that merge returns, a section is either the receiver's own    *)
(* dict object (own = TRUE: what is written to it is written to the        *)
(* receiver) or another value.  In this part `config` is the receiver as   *)
(* it is now and `supplied` the receiver as it was before the call.        *)
(***************************************************************************)
Sections == {"api", "logging", "processing"}

\* AppConfig(): the sections of the defaults
DefaultAppConfig ==
  [api |-> [base_url |-> Present("http://localhost:3000"), timeout |-> Present(30)],
   logging |-> [level |-> Present("INFO"), format |-> Present("json")],
   processing |-> [batch_size |-> Present(20)]]

\* the receivers: the defaults, and a configuration without a timeout
Receivers ==
  {DefaultAppConfig,
   [DefaultAppConfig EXCEPT !.api.timeout = Absent(0), !.logging.level = Present("WARNING")]}

\* the dict with no key, for each section
EmptySection ==
  [api |-> [base_url |-> Absent(""), timeout |-> Absent(0)],
   logging |-> [level |-> Absent(""), format |-> Absent("")],
   processing |-> [batch_size |-> Absent(0)]]

\* a key of other_config: absent, or present with None or with a dict
NoKey(k) == [has |-> FALSE, isDict |-> FALSE, v |-> EmptySection[k]]
WithNone(k) == [has |-> TRUE, isDict |-> FALSE, v |-> EmptySection[k]]
WithDict(d) == [has |-> TRUE, isDict |-> TRUE, v |-> d]

\* the override mappings: each section absent, None, or a dict with some keys
Overrides ==
  [api : {NoKey("api"), WithNone("api")}
           \cup {WithDict([base_url |-> u, timeout |-> t]) :
                   u \in {Absent(""), Present("http://override.com")},
                   t \in {Absent(0), Present(60), Present(0)}},
   logging : {NoKey("logging"), WithNone("logging")}
               \cup {WithDict([level |-> l, format |-> Absent("")]) :
                       l \in {Absent(""), Present("DEBUG")}},
   processing : {NoKey("processing"), WithNone("processing")}
                  \cup {WithDict([batch_size |-> b]) : b \in {Present(50), Present(0)}}]

\* dict.update(other): the entries of `other` are written into the dict
Update(d, other) == [k \in DOMAIN d |-> IF other[k].has THEN other[k] ELSE d[k]]

\* the sections of the dict that to_dict returns: "api": self.api and so on,
\* the receiver's own objects
AppConfig_to_dict(self) == [k \in Sections |-> [own |-> TRUE, isDict |-> TRUE, v |-> self[k]]]

\* the loop of merge over the sections of other_config: a dict is written
\* into the dict merged_data holds for the key, another value takes its place
merged_data(self, other_config) ==
  [k \in Sections |->
     IF ~other_config[k].has THEN AppConfig_to_dict(self)[k]
     ELSE IF AppConfig_to_dict(self)[k].isDict /\ other_config[k].isDict
     THEN [AppConfig_to_dict(self)[k] EXCEPT !.v = Update(@, other_config[k].v)]
     ELSE [own |-> FALSE, isDict |-> other_config[k].isDict, v |-> other_config[k].v]]

\* the receiver after the loop: its own objects hold what was written to them
ReceiverAfter(self, other_config) ==
  [k \in Sections |->
     IF merged_data(self, other_config)[k].own
     THEN merged_data(self, other_config)[k].v ELSE self[k]]

\* AppConfig.from_dict(data), that is cls(api=..., ...) and __post_init__:
\* the class of the exception raised, or ""
Validation(data) ==
  IF ~data.api.isDict THEN "TypeError"
  ELSE IF data.api.v.timeout.has /\ data.api.v.timeout.v <= 0 THEN "ValueError"
  ELSE IF ~data.processing.isDict THEN "TypeError"
  ELSE IF data.processing.v.batch_size.has /\ data.processing.v.batch_size.v <= 0
  THEN "ValueError"
  ELSE ""

\* self.merge(other_config): the receiver afterwards, and the AppConfig
\* returned or the exception raised
merge(self, other_config) ==
  LET data == merged_data(self, other_config) IN
  [self |-> ReceiverAfter(self, other_config),
   outcome |-> IF Validation(data) = "" THEN Returned(data)
               ELSE Raised(Validation(data), AppConfig_to_dict(self))]

\* a program holds an AppConfig; nothing has been called on it
InitMerge ==
  /\ config \in Receivers
  /\ supplied = config
  /\ cookie_data = NoBundle
  /\ session = "open"
  /\ pc = "idle"
  /\ op = "none"
  /\ attempt = 0
  /\ calls = 0
  /\ sleeps = <<>>
  /\ history = <<>>
  /\ last_response = NoResponse
  /\ result = NoResult
  /\ closes = 0
  /\ scope = NoScope
  /\ via = "none"
  /\ args = DefaultArguments
  /\ request = NoRequest
  /\ answer = NoAnswer
  /\ loaded = NoBundle

\* base.merge(other_config) is called on the AppConfig the program holds
AppConfig_merge(other_config) ==
  /\ pc = "idle"
  /\ pc' = "done"
  /\ op' = "merge"
  /\ args' = other_config
  /\ supplied' = config
  /\ config' = merge(config, other_config).self
  /\ answer' = merge(config, other_config).outcome
  /\ UNCHANGED <<cookie_data, session, attempt, calls, sleeps, history, last_response,
                 result, closes, scope, via, request, loaded>>

NextMerge ==
  \/ pc = "idle" /\ \E other_config \in Overrides : AppConfig_merge(other_config)
  \/ Return

SpecMerge == InitMerge /\ [][NextMerge]_vars

\* C39: when base.merge(other) has returned the new AppConfig, the api,
\* logging and processing of base hold the keys and values they held before
\* the call.
C39_MergeLeavesReceiverUnchanged ==
  (Applied("merge") /\ answer.kind = "return") => config = supplied

(***************************************************************************)
(* _collect_twitter_tokens (src/open_x_cdp.py): the bundle made of the     *)
(* cookies that the browser reports.                                       *)
(***************************************************************************)
\* most cookies in one answer of the browser
MaxCookies == 3

\* names of cookies: three of the required ones and one that is not
CookieNames == {"auth_token", "ct0", "twid", "lang"}

\* an element of the 'cookies' list: a dict with a name and a value that are
\* strings, a dict whose name or value is not a string, or something that is
\* no dict
CookieEntries ==
  [isDict : {TRUE}, nameIsStr : {TRUE}, valueIsStr : {TRUE}, name : CookieNames,
   value : {"v", "w"}]
  \cup {[isDict |-> TRUE, nameIsStr |-> TRUE, valueIsStr |-> TRUE, name |-> "twid",
         value |-> ""],
        [isDict |-> TRUE, nameIsStr |-> TRUE, valueIsStr |-> FALSE, name |-> "ct0",
         value |-> "None"],
        [isDict |-> TRUE, nameIsStr |-> FALSE, valueIsStr |-> TRUE, name |-> "None",
         value |-> "v"],
        [isDict |-> FALSE, nameIsStr |-> FALSE, valueIsStr |-> FALSE, name |-> "",
         value |-> ""]}

\* the 'cookies' lists of the browser's answer
CookieLists == UNION {[1..n -> CookieEntries] : n \in 0..MaxCookies}

\* the loop skips what is no dict and what has no string for name or value
Skipped(cookie) == ~cookie.isDict \/ ~cookie.nameIsStr \/ ~cookie.valueIsStr

\* before the loop: no formatted cookie, no header part, an empty lookup
NoCookies ==
  [formatted_cookies |-> <<>>, header_parts |-> <<>>,
   cookie_lookup |-> [name \in CookieNames |-> "absent"]]

\* a loop body in which a later cookie of a name replaces the value looked up
CollectOne_LastWins(acc, cookie) ==
  IF Skipped(cookie) THEN acc
  ELSE [formatted_cookies |->
          Append(acc.formatted_cookies, [name |-> cookie.name, value |-> cookie.value]),
        header_parts |->
          IF acc.cookie_lookup[cookie.name] = "absent"
          THEN Append(acc.header_parts, PairText(cookie.name, cookie.value))
          ELSE acc.header_parts,
        cookie_lookup |-> [acc.cookie_lookup EXCEPT ![cookie.name] = cookie.value]]

\* one run of the loop body: the cookie joins the formatted ones, and if its
\* name is new, the lookup and the header parts
CollectOne(acc, cookie) ==
  IF Skipped(cookie) THEN acc
  ELSE [formatted_cookies |->
          Append(acc.formatted_cookies, [name |-> cookie.name, value |-> cookie.value]),
        header_parts |->
          IF acc.cookie_lookup[cookie.name] = "absent"
          THEN Append(acc.header_parts, PairText(cookie.name, cookie.value))
          ELSE acc.header_parts,
        cookie_lookup |->
          IF acc.cookie_lookup[cookie.name] = "absent"
          THEN [acc.cookie_lookup EXCEPT ![cookie.name] = cookie.value]
          ELSE acc.cookie_lookup]

RECURSIVE CollectAll(_, _)
\* for cookie in cookies
CollectAll(acc, cookies) ==
  IF cookies = <<>> THEN acc
  ELSE CollectAll(CollectOne(acc, Head(cookies)), Tail(cookies))

RECURSIVE Join(_)
\* "; ".join(header_parts)
Join(parts) ==
  IF parts = <<>> THEN <<>>
  ELSE IF Len(parts) = 1 THEN parts[1]
  ELSE parts[1] \o <<"; ">> \o Join(Tail(parts))

\* the essentials: the required names that are in the lookup, with the value
\* looked up
EssentialsOf(cookie_lookup) ==
  [key \in RequiredSet |->
     IF key \in CookieNames /\ cookie_lookup[key] # "absent"
     THEN cookie_lookup[key] ELSE "absent"]

\* _collect_twitter_tokens, from the 'cookies' of the browser's answer on
_collect_twitter_tokens(cookies) ==
  LET acc == CollectAll(NoCookies, cookies) IN
  [cookies |-> acc.formatted_cookies,
   cookieHeader |-> Join(acc.header_parts),
   essentials |-> EssentialsOf(acc.cookie_lookup)]

\* _collect_twitter_tokens(ws) is called and the browser answers `cookies`
collect_twitter_tokens(cookies) ==
  Apply("_collect_twitter_tokens", cookies, Returned(_collect_twitter_tokens(cookies)))

NextTokens ==
  \/ pc = "idle" /\ \E cookies \in CookieLists : collect_twitter_tokens(cookies)
  \/ Return

SpecTokens == InitModels /\ [][NextTokens]_vars

(***************************************************************************)
(* Claim about the bundle of _collect_twitter_tokens.                      *)
(***************************************************************************)
\* the places of the browser's list that hold the first cookie of a name
FirstOfName(cookies) ==
  {i \in 1..Len(cookies) :
     /\ ~Skipped(cookies[i])
     /\ \A j \in 1..(i - 1) : Skipped(cookies[j]) \/ cookies[j].name # cookies[i].name}

\* the name=value pairs of a header whose pairs are joined by "; "
PairsOf(header) == {<<header[4 * k - 3], header[4 * k - 1]>> : k \in 1..((Len(header) + 1) \div 4)}

\* C40: the bundle of _collect_twitter_tokens is consistent.  Its
\* cookieHeader is made of name=value pairs joined by "; ", one pair for
\* each name among the cookies that are not skipped, with the value of the
\* first cookie of that name and in the order of these cookies; essentials
\* has exactly the required names that occur among these cookies, each with
\* the value of its first cookie, and each such pair is a pair of the header.
C40_BundleIsConsistent ==
  Applied("_collect_twitter_tokens") =>
    LET cookies == args
        bundle == answer.value
        header == bundle.cookieHeader
        firsts == FirstOfName(cookies)
        n == Cardinality(firsts) IN
    /\ answer.kind = "return"
    /\ Len(header) = (IF n = 0 THEN 0 ELSE 4 * n - 1)
    /\ \A k \in 1..n :
         /\ header[4 * k - 2] = "="
         /\ k < n => header[4 * k] = "; "
         /\ \A l \in 1..n : l # k => header[4 * l - 3] # header[4 * k - 3]
    /\ PairsOf(header) = {<<cookies[i].name, cookies[i].value>> : i \in firsts}
    /\ \A k \in 1..n, l \in 1..n :
         k < l => \E i \in firsts, j \in firsts :
                    /\ i < j
                    /\ cookies[i].name = header[4 * k - 3]
                    /\ cookies[j].name = header[4 * l - 3]
    /\ \A key \in RequiredSet :
         /\ bundle.essentials[key] # "absent" <=>
              \E i \in firsts : cookies[i].name = key
         /\ bundle.essentials[key] # "absent" =>
              /\ <<key, bundle.essentials[key]>> \in PairsOf(header)
              /\ \E i \in firsts :
                   cookies[i].name = key /\ cookies[i].value = bundle.essentials[key]
    /\ Len(bundle.cookies) = Cardinality({i \in 1..Len(cookies) : ~Skipped(cookies[i])})

\* C40 witness: the browser reported ct0 twice with different values and a
\* cookie that is not required between them; the header has ct0 once, with
\* the first value, and essentials has ct0 with that value and nothing else.
C40_Witness ==
  /\ Applied("_collect_twitter_tokens")
  /\ Len(args) = 3
  /\ args[1].name = "ct0" /\ args[1].value = "w" /\ ~Skipped(args[1])
  /\ args[2].name = "lang" /\ args[2].value = "v"
  /\ args[3].name = "ct0" /\ args[3].value = "v" /\ ~Skipped(args[3])
  /\ answer.value.cookieHeader = <<"ct0", "=", "w", "; ", "lang", "=", "v">>
  /\ answer.value.essentials = [EmptyEssentials EXCEPT !["ct0"] = "w"]
  /\ Len(answer.value.cookies) = 3

====
